---------------------------- MODULE Spec2Model ----------------------------
(***************************************************************************)
(* Model of the trading bot's orchestrator (bot/TradingBot.js), risk       *)
(* manager (services/riskManager, the third class of alpacaService.js) and *)
(* scanner (bot/Scanner.js).                                               *)
(*                                                                         *)
(* JavaScript runs one task at a time: a handler runs without interruption *)
(* from one `await` to the next.  Every action below is one such stretch   *)
(* of code.  Consecutive awaits on venue adapters between which the bot    *)
(* writes no state of its own are taken in one action, the adapters'       *)
(* answers being drawn with \E.  The continuation of start() after         *)
(* `await this.runScanCycle()` runs as a microtask right behind the last   *)
(* stretch of that cycle, so it is part of the action that ends the cycle. *)
(* Invocations in flight carry no identity: two at the same program point  *)
(* with the same locals are interchangeable, so they are kept as a bag.    *)
(***************************************************************************)
EXTENDS Integers, Sequences, FiniteSets, Bags, TLC

VARIABLES
    status,        \* TradingBot.status: "stopped" | "running" | "paused"
    scanInterval,  \* TradingBot.scanInterval: a timer handle, 0 for null
    timers,        \* the event loop's live setInterval timers (handles)
    stats,         \* TradingBot.stats: [tradesExecuted, errors]
    dailyStats,    \* RiskManager.dailyStats
    config,        \* RiskManager.config
    today,         \* the calendar date new Date().toDateString() returns
    cyc,           \* the runScanCycle() invocations in flight, a bag of
                   \* their program points and locals
    starting,      \* the number of start() invocations past the guard that
                   \* await testConnection / getTotalBalance
    ev,            \* what the last step did (an observer, read by no action)
    haltedSince,   \* a cycle halted the bot and start() was not called since
                   \* (an observer, read by no action)
    fn             \* a single call under examination: its arguments, how
                   \* far it has got and what it has done (CallSpec only)

vars ==
    <<status, scanInterval, timers, stats, dailyStats, config, fn, today,
      cyc, starting, ev, haltedSince>>

-----------------------------------------------------------------------------
(* Bounds of the model *)

\* timer handles the event loop hands out
MaxTimers ==
    2

\* cap of stats.errors
MaxErrors ==
    1

\* cap of stats.tradesExecuted
MaxTrades ==
    1

\* number of date rollovers
MaxDay ==
    1

\* runScanCycle() invocations that may be in flight together
MaxCycles ==
    2

\* aggregate balances the venues may report
Balances ==
    {100, 570, 600}

-----------------------------------------------------------------------------
(* Risk manager *)

DefaultConfig ==
    [ capitalInicial    |-> 5000,
      lucroMaximoDiario |-> 500,
      perdaMaximaDiaria |-> 200,
      agressividade     |-> 70,
      maxPosicoes       |-> 5,
      maxPosicoesStocks |-> 3,
      maxPosicoesCrypto |-> 3,
      stopLossPercent   |-> 2,
      takeProfitPercent |-> 4 ]

\* configurations the constructor may be given (server: the environment's
\* MAX_POSICOES_TOTAL, MAX_POSICOES_STOCKS, MAX_POSICOES_CRYPTO, AGRESSIVIDADE)
Configs ==
    { DefaultConfig,
      [DefaultConfig EXCEPT !.maxPosicoes = 2],
      [DefaultConfig EXCEPT !.maxPosicoesStocks = 1, !.maxPosicoesCrypto = 1],
      [DefaultConfig EXCEPT !.agressividade = 50],
      [DefaultConfig EXCEPT !.agressividade = 100] }

\* the constructor's dailyStats: startBalance 0, dated the construction day
InitDailyStats(day) ==
    [ startBalance |-> 0, currentPnL |-> 0, tradesCount |-> 0, startDate |-> day ]

\* mutant: a reset that replaces the session whatever its date
ResetDailyStatsAlways(ds, startBalance, day) ==
    [ startBalance |-> startBalance, currentPnL |-> 0,
      tradesCount |-> 0, startDate |-> day ]

ResetDailyStats(ds, startBalance, day) ==
    IF ds.startDate # day
    THEN [ startBalance |-> startBalance, currentPnL |-> 0,
           tradesCount |-> 0, startDate |-> day ]
    ELSE ds

UpdateDailyPnL(ds, currentBalance) ==
    [ds EXCEPT !.currentPnL = currentBalance - ds.startBalance]

\* mutant: the profit limit taken as an exclusive bound
HasHitDailyProfitLimitStrict(ds, cfg) ==
    ds.currentPnL > cfg.lucroMaximoDiario

HasHitDailyProfitLimit(ds, cfg) ==
    ds.currentPnL >= cfg.lucroMaximoDiario

HasHitDailyLossLimit(ds, cfg) ==
    ds.currentPnL <= -cfg.perdaMaximaDiaria

ShouldStopTrading(ds, cfg) ==
    HasHitDailyProfitLimit(ds, cfg) \/ HasHitDailyLossLimit(ds, cfg)

\* mutant: the breaker taken as an exclusive bound
CheckCircuitBreakerStrict(ds, currentBalance) ==
    LET d == currentBalance - ds.startBalance
        s == ds.startBalance
    IN  IF s > 0 THEN d * 100 < -5 * s
        ELSE IF s < 0 THEN d * 100 > -5 * s
        ELSE d < 0

\* lossPercent = (currentBalance - startBalance) / startBalance * 100 <= -5.
\* With startBalance 0 the quotient is +Infinity, NaN or -Infinity.  On whole
\* balances the double-precision lossPercent is -5 exactly when the loss is
\* a twentieth of startBalance, so the comparison is the exact one.
CheckCircuitBreaker(ds, currentBalance) ==
    LET d == currentBalance - ds.startBalance
        s == ds.startBalance
    IN  IF s > 0 THEN d * 100 <= -5 * s
        ELSE IF s < 0 THEN d * 100 >= -5 * s
        ELSE d < 0

CountExchange(currentPositions, exchange) ==
    Len(SelectSeq(currentPositions, LAMBDA p : p.exchange = exchange))

\* mutant: the total limit alone
CanOpenPositionTotalOnly(currentPositions, exchange, cfg) ==
    Len(currentPositions) < cfg.maxPosicoes

\* mutant: the limits compared with > instead of >=
CanOpenPositionOffByOne(currentPositions, exchange, cfg) ==
    IF Len(currentPositions) > cfg.maxPosicoes THEN FALSE
    ELSE IF exchange = "Alpaca"
            /\ CountExchange(currentPositions, "Alpaca") > cfg.maxPosicoesStocks
         THEN FALSE
    ELSE IF exchange = "Kraken"
            /\ CountExchange(currentPositions, "Kraken") > cfg.maxPosicoesCrypto
         THEN FALSE
    ELSE TRUE

CanOpenPosition(currentPositions, exchange, cfg) ==
    IF Len(currentPositions) >= cfg.maxPosicoes THEN FALSE
    ELSE IF exchange = "Alpaca"
            /\ CountExchange(currentPositions, "Alpaca") >= cfg.maxPosicoesStocks
         THEN FALSE
    ELSE IF exchange = "Kraken"
            /\ CountExchange(currentPositions, "Kraken") >= cfg.maxPosicoesCrypto
         THEN FALSE
    ELSE TRUE

RECURSIVE GCD(_, _)
GCD(a, b) ==
    IF b = 0 THEN a ELSE GCD(b, a % b)

\* A quantity that need not be whole: the quotient num / den (num >= 0,
\* den > 0), in lowest terms.
Ratio(num, den) ==
    [ num |-> num \div GCD(num, den), den |-> den \div GCD(num, den) ]

RatioLess(a, b) ==
    a.num * b.den < b.num * a.den

\* mutant: the floored quantity returned as it is, without the minimum of 1
CalculatePositionSizeNoMinimum(accountBalance, price, cfg) ==
    (accountBalance * 2 * cfg.agressividade) \div (10000 * price)

\* calculatePositionSize: positionValue = accountBalance * (2 * (agressividade
\* / 100) / 100), quantity = Math.floor(positionValue / price), 1 when that is
\* not positive.  The quotients are exact here; the balances and prices of
\* the model are ones on which the double-precision result is the same.
CalculatePositionSize(accountBalance, price, cfg) ==
    LET quantity == (accountBalance * 2 * cfg.agressividade) \div (10000 * price)
    IN  IF quantity > 0 THEN quantity ELSE 1

\* calculateCryptoPositionSize: Math.max(positionValue / price, 0.001)
CalculateCryptoPositionSize(accountBalance, price, cfg) ==
    LET quantity == Ratio(accountBalance * 2 * cfg.agressividade, 10000 * price)
    IN  IF RatioLess(quantity, Ratio(1, 1000)) THEN Ratio(1, 1000) ELSE quantity

ShouldClosePosition(position, cfg) ==
    \/ position.profitLossPercent <= -cfg.stopLossPercent
    \/ position.profitLossPercent >= cfg.takeProfitPercent

\* mutant: the loss headroom computed with the sign of the profit headroom
GetRiskStatsLossSign(ds, cfg) ==
    [ dailyPnL             |-> ds.currentPnL,
      dailyPnLPercent      |-> <<ds.currentPnL * 100, ds.startBalance>>,
      tradesCount          |-> ds.tradesCount,
      profitLimitRemaining |-> cfg.lucroMaximoDiario - ds.currentPnL,
      lossLimitRemaining   |-> cfg.perdaMaximaDiaria - ds.currentPnL,
      canTrade             |-> ~ShouldStopTrading(ds, cfg) ]

\* getRiskStats.  dailyPnLPercent is the quotient currentPnL * 100 /
\* startBalance, kept as the pair of its terms (it is not a finite number
\* when startBalance is 0).
GetRiskStats(ds, cfg) ==
    [ dailyPnL             |-> ds.currentPnL,
      dailyPnLPercent      |-> <<ds.currentPnL * 100, ds.startBalance>>,
      tradesCount          |-> ds.tradesCount,
      profitLimitRemaining |-> cfg.lucroMaximoDiario - ds.currentPnL,
      lossLimitRemaining   |-> cfg.perdaMaximaDiaria + ds.currentPnL,
      canTrade             |-> ~ShouldStopTrading(ds, cfg) ]

-----------------------------------------------------------------------------
(* RSI strategy *)

\* the constructor's defaults
DefaultStrategy ==
    [ period |-> 14, oversold |-> 30, overbought |-> 70 ]

\* strategies the bot may be configured with (RSI_PERIOD)
Strategies ==
    { DefaultStrategy, [DefaultStrategy EXCEPT !.period = 20] }

Min(a, b) ==
    IF a < b THEN a ELSE b

\* The indicator RSI.calculate (package technicalindicators) computes, as
\* section 4.1 of the specification defines it: the average gain and the
\* average loss are seeded as the means of the first `period` price deltas
\* and then smoothed, avg = (avg * (period - 1) + new) / period; the value
\* is 100 - 100 / (1 + avgGain / avgLoss), and 100 when avgLoss = 0.
Gain(values, j) ==
    IF values[j + 1] > values[j] THEN values[j + 1] - values[j] ELSE 0

Loss(values, j) ==
    IF values[j + 1] < values[j] THEN values[j] - values[j + 1] ELSE 0

RECURSIVE Power(_, _)
Power(b, e) ==
    IF e = 0 THEN 1 ELSE b * Power(b, e - 1)

RECURSIVE WilderGain(_, _, _)
\* the average gain over the first n deltas (n >= period), times
\* period ^ (n - period + 1)
WilderGain(values, period, n) ==
    IF n = 0 THEN 0
    ELSE IF n <= period THEN WilderGain(values, period, n - 1) + Gain(values, n)
    ELSE WilderGain(values, period, n - 1) * (period - 1)
         + Gain(values, n) * Power(period, n - period)

RECURSIVE WilderLoss(_, _, _)
WilderLoss(values, period, n) ==
    IF n = 0 THEN 0
    ELSE IF n <= period THEN WilderLoss(values, period, n - 1) + Loss(values, n)
    ELSE WilderLoss(values, period, n - 1) * (period - 1)
         + Loss(values, n) * Power(period, n - period)

\* the last value of RSI.calculate({values, period}) on period + 1 values or
\* more (by whole part; whole on the series of the model)
LastRSI(values, period) ==
    LET avgGain == WilderGain(values, period, Len(values) - 1)
        avgLoss == WilderLoss(values, period, Len(values) - 1)
    IN  IF avgLoss = 0 THEN 100 ELSE (100 * avgGain) \div (avgGain + avgLoss)

\* calculateRSI on a history of len points, rsi being the last value
\* RSI.calculate returns for it; <<>> stands for null
CalculateRSI(len, rsi, strategy) ==
    IF len < strategy.period + 1 THEN <<>> ELSE <<rsi>>

\* mutant: the thresholds themselves taken as oversold and overbought
GenerateSignalInclusive(rsi, strategy) ==
    IF rsi = <<>> THEN [ type |-> "HOLD", strength |-> 0 ]
    ELSE IF rsi[1] <= strategy.oversold
    THEN [ type |-> "BUY",
           strength |-> Min(((strategy.oversold - rsi[1]) * 100)
                               \div strategy.oversold, 100) ]
    ELSE IF rsi[1] >= strategy.overbought
    THEN [ type |-> "SELL",
           strength |-> Min(((rsi[1] - strategy.overbought) * 100)
                               \div (100 - strategy.overbought), 100) ]
    ELSE [ type |-> "HOLD", strength |-> 0 ]

\* mutant: the strengths without Math.min(strength, 100)
GenerateSignalUncapped(rsi, strategy) ==
    IF rsi = <<>> THEN [ type |-> "HOLD", strength |-> 0 ]
    ELSE IF rsi[1] < strategy.oversold
    THEN [ type |-> "BUY",
           strength |-> ((strategy.oversold - rsi[1]) * 100) \div strategy.oversold ]
    ELSE IF rsi[1] > strategy.overbought
    THEN [ type |-> "SELL",
           strength |-> ((rsi[1] - strategy.overbought) * 100)
                           \div (100 - strategy.overbought) ]
    ELSE [ type |-> "HOLD", strength |-> 0 ]

\* generateSignal.  The strengths are quotients; the model keeps their whole
\* part, which is the strength itself on the values of rsi the scans of the
\* model draw.
GenerateSignal(rsi, strategy) ==
    IF rsi = <<>> THEN [ type |-> "HOLD", strength |-> 0 ]
    ELSE IF rsi[1] < strategy.oversold
    THEN [ type |-> "BUY",
           strength |-> Min(((strategy.oversold - rsi[1]) * 100)
                               \div strategy.oversold, 100) ]
    ELSE IF rsi[1] > strategy.overbought
    THEN [ type |-> "SELL",
           strength |-> Min(((rsi[1] - strategy.overbought) * 100)
                               \div (100 - strategy.overbought), 100) ]
    ELSE [ type |-> "HOLD", strength |-> 0 ]

Analyze(len, rsi, strategy) ==
    LET signal == GenerateSignal(CalculateRSI(len, rsi, strategy), strategy)
    IN  [ signal |-> signal.type, strength |-> signal.strength ]

-----------------------------------------------------------------------------
(* Scanner *)

\* config/stocks, config/crypto: the universe start() is given
StockSymbols ==
    <<"AAPL">>

CryptoSymbols ==
    <<"BTC/EUR">>

Signal(symbol, exchange, signal, strength) ==
    [ symbol |-> symbol, exchange |-> exchange, signal |-> signal,
      strength |-> strength ]

\* What scanStock(symbol) may resolve to, <<>> standing for null (too little
\* history, no price, or an error caught inside scanStock).
StockScanResults(symbol) ==
    { <<>>,
      <<Signal(symbol, "Alpaca", "BUY", 60)>>,
      <<Signal(symbol, "Alpaca", "HOLD", 0)>> }

CryptoScanResults(symbol) ==
    { <<>>,
      <<Signal(symbol, "Kraken", "BUY", 80)>>,
      <<Signal(symbol, "Kraken", "BUY", 40)>> }

\* What the venue answers to the fetches of one scan: whether one of them
\* throws, whether Kraken lists the pair (or its fallback), the number of
\* points of history, the current price (0 for none) and the last RSI value
\* of the history.
Fetches ==
    { [ throws |-> TRUE, available |-> TRUE, len |-> 0, price |-> 0, rsi |-> 0 ] }
    \cup [ throws : {FALSE}, available : BOOLEAN, len : {14, 20, 21},
           price : {0, 150}, rsi : {6, 18, 50, 85} ]

\* scanStock: <<>> for null
ScanStock(symbol, fetch, strategy) ==
    IF fetch.throws THEN <<>>
    ELSE IF fetch.len < 20 THEN <<>>
    ELSE IF fetch.price = 0 THEN <<>>
    ELSE LET analysis == Analyze(fetch.len, fetch.rsi, strategy)
         IN  <<Signal(symbol, "Alpaca", analysis.signal, analysis.strength)>>

\* scanCrypto: <<>> for null
ScanCrypto(symbol, fetch, strategy) ==
    IF fetch.throws THEN <<>>
    ELSE IF ~fetch.available THEN <<>>
    ELSE IF fetch.len < 20 THEN <<>>
    ELSE IF fetch.price = 0 THEN <<>>
    ELSE LET analysis == Analyze(fetch.len, fetch.rsi, strategy)
         IN  <<Signal(symbol, "Kraken", analysis.signal, analysis.strength)>>

RECURSIVE Flatten(_, _)
\* results.filter(fulfilled and not null).map(value), in the order of the symbols
Flatten(results, n) ==
    IF n = 0 THEN <<>> ELSE Flatten(results, n - 1) \o results[n]

InsertByStrength(sorted, x) ==
    LET k == Len(SelectSeq(sorted, LAMBDA y : y.strength >= x.strength))
    IN  SubSeq(sorted, 1, k) \o <<x>> \o SubSeq(sorted, k + 1, Len(sorted))

RECURSIVE SortByStrength(_)
\* Array.prototype.sort((a, b) => b.strength - a.strength): descending and stable
SortByStrength(s) ==
    IF s = <<>> THEN <<>>
    ELSE InsertByStrength(SortByStrength(SubSeq(s, 1, Len(s) - 1)), s[Len(s)])

\* scanAll's result: all signals, the BUY and the SELL ones sorted by
\* strength, and its stats (less the duration)
ScanAll(stockSignals, cryptoSignals) ==
    LET allSignals == stockSignals \o cryptoSignals
        buySignals == SelectSeq(allSignals, LAMBDA s : s.signal = "BUY")
        sellSignals == SelectSeq(allSignals, LAMBDA s : s.signal = "SELL")
    IN  [ all   |-> allSignals,
          buy   |-> SortByStrength(buySignals),
          sell  |-> SortByStrength(sellSignals),
          stats |-> [ total |-> Len(allSignals), buyCount |-> Len(buySignals),
                      sellCount |-> Len(sellSignals) ] ]

\* mutant: the list cut to `limit` before it is sorted
FindBestOpportunitiesCutFirst(signals, minStrength, limit) ==
    LET kept == SelectSeq(signals,
                    LAMBDA s : s.strength >= minStrength /\ s.signal # "HOLD")
    IN  SortByStrength(SubSeq(kept, 1, IF Len(kept) < limit THEN Len(kept) ELSE limit))

\* the array handed to findBestOpportunities, after the call: filter builds
\* a new array, which is the one sort reorders
SignalsAfterFindBest(signals) ==
    signals

FindBestOpportunities(signals, minStrength, limit) ==
    LET kept == SortByStrength(SelectSeq(signals,
                    LAMBDA s : s.strength >= minStrength /\ s.signal # "HOLD"))
    IN  SubSeq(kept, 1, IF Len(kept) < limit THEN Len(kept) ELSE limit)

-----------------------------------------------------------------------------
(* Venue adapters: what their calls may answer *)

Position(symbol, exchange, profitLossPercent) ==
    [ symbol |-> symbol, exchange |-> exchange,
      profitLossPercent |-> profitLossPercent ]

\* AlpacaService.getPositions(): [] on error
AlpacaPositionFetches ==
    { <<>>, <<Position("AAPL", "Alpaca", -3)>> }

\* mutant: a crypto position that carries a loss
KrakenPositionTracked(symbol) ==
    Position(symbol, "Kraken", -3)

\* a position as KrakenService.getPositions() builds it of a balance:
\* profitLoss and profitLossPercent are the literal 0
KrakenPosition(symbol) ==
    Position(symbol, "Kraken", 0)

\* KrakenService.getPositions(): [] on error
KrakenPositionFetches ==
    { <<>>, <<KrakenPosition("BTC/EUR")>> }

\* most positions a venue may report open in the calls examined
MaxHeld ==
    3

\* the symbols open positions may have, by venue
StockNames ==
    <<"AAPL", "TSLA", "MSFT", "NVDA">>

CryptoNames ==
    <<"BTC/EUR", "ETH/EUR", "SOL/EUR", "ADA/EUR">>

\* the list getAllPositions() builds of a stock and k crypto positions
HeldList(a, k) ==
    [j \in 1..a |-> Position(StockNames[j], "Alpaca", 0)]
    \o [j \in 1..k |-> Position(CryptoNames[j], "Kraken", 0)]

HeldLists ==
    { HeldList(a, k) : a \in 0..MaxHeld, k \in 0..MaxHeld }

\* mutant: a clock that cannot be fetched is taken for an open market
IsMarketOpenOnError(outcome) ==
    outcome # "marketClosed"

\* AlpacaService.isMarketOpen(), by how the candidate's awaits go:
\* clock.is_open, and false when getClock() throws
IsMarketOpen(outcome) ==
    outcome \notin {"marketClosed", "clockThrows"}

\* How the awaits of one candidate of executeTrades may go.  A stock is never
\* too small: calculatePositionSize returns 1 at least, so the test
\* `quantity < 1` of executeBuyStock never holds.
TradeOutcomes(exchange) ==
    IF exchange = "Alpaca"
    THEN {"marketClosed", "clockThrows", "balanceThrows", "buyThrows", "bought"}
    ELSE {"balanceThrows", "tooSmall", "buyThrows", "bought"}

\* what getBalance() may report as alpacaBalance.cash / krakenBalance.total
VenueBalances ==
    {10, 5000}

\* signal.currentPrice: what getCurrentPrice returned to the scan (positive,
\* the scan of an asset without a price yields no signal)
SignalPrices ==
    {20, 100, 5000}

\* what getMinOrderSize may return: the market's minimum amount, or 0.001
MinOrderSizes ==
    { Ratio(1, 10000), Ratio(1, 1000), Ratio(1, 1) }

-----------------------------------------------------------------------------
(* Orchestrator: the pure parts *)

\* checkPositions: the symbols of the positions it tries to close, in order
CheckPositions(positions, cfg) ==
    LET exits == SelectSeq(positions, LAMBDA p : ShouldClosePosition(p, cfg))
    IN  [i \in 1..Len(exits) |-> exits[i].symbol]

\* what checkPositions has done so far: the symbols it tried to close, those
\* whose close succeeded, and whether an exception left it
NoChecks ==
    [ attempts |-> <<>>, closed |-> <<>>, thrown |-> FALSE ]

\* mutant: the failure of a close is not caught inside the loop
CheckOneRethrows(acc, position, outcome, cfg) ==
    IF ShouldClosePosition(position, cfg)
    THEN [ attempts |-> Append(acc.attempts, position.symbol),
           closed   |-> IF outcome = "closed"
                        THEN Append(acc.closed, position.symbol) ELSE acc.closed,
           thrown   |-> outcome = "closeThrows" ]
    ELSE acc

\* the body of the loop of checkPositions for one position, `outcome` being
\* how closePosition goes if it is called
CheckOne(acc, position, outcome, cfg) ==
    IF ShouldClosePosition(position, cfg)
    THEN [ attempts |-> Append(acc.attempts, position.symbol),
           closed   |-> IF outcome = "closed"
                        THEN Append(acc.closed, position.symbol) ELSE acc.closed,
           thrown   |-> FALSE ]
    ELSE acc

RECURSIVE CheckPositionsFrom(_, _, _, _, _)
\* checkPositions from its i-th position on, outcomes[j] being how the close
\* of the j-th goes if it is called
CheckPositionsFrom(positions, i, acc, outcomes, cfg) ==
    IF i > Len(positions) THEN acc
    ELSE CheckPositionsFrom(positions, i + 1,
                            CheckOne(acc, positions[i], outcomes[i], cfg),
                            outcomes, cfg)

\* mutant: the positions the exit check is due to close are taken off the list
PositionsAfterChecksReduced(positions, cfg) ==
    SelectSeq(positions, LAMBDA q : ~ShouldClosePosition(q, cfg))

\* the array `positions` of runScanCycle after checkPositions(positions),
\* which is the one executeTrades is handed: checkPositions reads it and
\* writes nothing to it
PositionsAfterChecks(positions, cfg) ==
    positions

\* mutant: every opportunity is processed
TopCandidatesAll(opportunities) ==
    opportunities

\* executeTrades takes opportunities.slice(0, 3)
TopCandidates(opportunities) ==
    SubSeq(opportunities, 1, IF Len(opportunities) < 3 THEN Len(opportunities) ELSE 3)

\* mutant: only the positions fetched from the stock venue are looked at
HasPositionStocksOnly(currentPositions, symbol) ==
    \E i \in 1..Len(currentPositions) :
        /\ currentPositions[i].symbol = symbol
        /\ currentPositions[i].exchange = "Alpaca"

HasPosition(currentPositions, symbol) ==
    \E i \in 1..Len(currentPositions) : currentPositions[i].symbol = symbol

\* executeBuyStock: the quantity it hands to alpacaService.buy, <<>> when it
\* returns without an order
ExecuteBuyStock(cash, currentPrice, cfg) ==
    LET quantity == CalculatePositionSize(cash, currentPrice, cfg)
    IN  IF quantity < 1 THEN <<>> ELSE <<Ratio(quantity, 1)>>

\* executeBuyCrypto: the quantity it hands to krakenService.buy, <<>> when it
\* returns without an order
ExecuteBuyCrypto(total, currentPrice, minOrder, cfg) ==
    LET quantity == CalculateCryptoPositionSize(total, currentPrice, cfg)
    IN  IF RatioLess(quantity, minOrder) THEN <<>> ELSE <<quantity>>

\* what executeTrades has done so far
NoTrades(currentPositions) ==
    [ positions |-> currentPositions, executed |-> 0, buys |-> <<>> ]

\* mutant: the trade is counted and tracked before the buy is awaited
TradeOneCountsFirst(acc, opp, outcome, cfg) ==
    IF ~CanOpenPosition(acc.positions, opp.exchange, cfg) THEN acc
    ELSE IF HasPosition(acc.positions, opp.symbol) THEN acc
    ELSE IF opp.exchange = "Alpaca" /\ ~IsMarketOpen(outcome) THEN acc
    ELSE IF outcome = "balanceThrows" THEN acc
    ELSE [ positions |-> Append(acc.positions,
                                [symbol |-> opp.symbol, exchange |-> opp.exchange]),
           executed  |-> acc.executed + 1,
           buys      |-> IF outcome = "bought" THEN Append(acc.buys, opp.symbol)
                         ELSE acc.buys ]

\* The body of the loop of executeTrades for one candidate, `outcome` being
\* how its awaits go.  A buy function that returns, also without an order
\* (executeBuyCrypto below the minimum size), is counted and tracked.
TradeOne(acc, opp, outcome, cfg) ==
    IF ~CanOpenPosition(acc.positions, opp.exchange, cfg) THEN acc
    ELSE IF HasPosition(acc.positions, opp.symbol) THEN acc
    ELSE IF opp.exchange = "Alpaca" /\ ~IsMarketOpen(outcome) THEN acc
    ELSE IF outcome \in {"balanceThrows", "buyThrows"} THEN acc
    ELSE [ positions |-> Append(acc.positions,
                                [symbol |-> opp.symbol, exchange |-> opp.exchange]),
           executed  |-> acc.executed + 1,
           buys      |-> IF outcome = "bought" THEN Append(acc.buys, opp.symbol)
                         ELSE acc.buys ]

RECURSIVE ExecuteTradesFrom(_, _, _, _, _)
ExecuteTradesFrom(candidates, i, acc, outcomes, cfg) ==
    IF i > Len(candidates) THEN acc
    ELSE ExecuteTradesFrom(candidates, i + 1,
                           TradeOne(acc, candidates[i], outcomes[i], cfg),
                           outcomes, cfg)

ExecuteTrades(opportunities, currentPositions, outcomes, cfg) ==
    ExecuteTradesFrom(TopCandidates(opportunities), 1, NoTrades(currentPositions),
                      outcomes, cfg)

\* how the awaits of the candidates of one executeTrades may go
OutcomeChoices(opportunities) ==
    LET cands == TopCandidates(opportunities)
    IN  { f \in [1..Len(cands) -> {"marketClosed", "clockThrows", "balanceThrows",
                                   "tooSmall", "buyThrows", "bought"}] :
            \A i \in 1..Len(cands) : f[i] \in TradeOutcomes(cands[i].exchange) }

\* what scanStocks and scanCryptos may resolve to
StockScans ==
    { Flatten(r, Len(StockSymbols)) :
        r \in { f \in [1..Len(StockSymbols) ->
                         UNION {StockScanResults(StockSymbols[i]) :
                                  i \in 1..Len(StockSymbols)}] :
                  \A i \in 1..Len(StockSymbols) :
                     f[i] \in StockScanResults(StockSymbols[i]) } }

CryptoScans ==
    { Flatten(r, Len(CryptoSymbols)) :
        r \in { f \in [1..Len(CryptoSymbols) ->
                         UNION {CryptoScanResults(CryptoSymbols[i]) :
                                  i \in 1..Len(CryptoSymbols)}] :
                  \A i \in 1..Len(CryptoSymbols) :
                     f[i] \in CryptoScanResults(CryptoSymbols[i]) } }

\* what findBestOpportunities(scanResults.buy, 50, 5) may be after a scanAll
OpportunityLists ==
    { FindBestOpportunities(ScanAll(stockSignals, cryptoSignals).buy, 50, 5) :
        stockSignals \in StockScans, cryptoSignals \in CryptoScans }

-----------------------------------------------------------------------------
(* Orchestrator: the state machine *)

\* A runScanCycle() invocation past its guard, at its first await; byStart
\* when a start() invocation awaits it, not the timer.
NewCycle(byStart) ==
    [ pc |-> "fetch", byStart |-> byStart ]

InFlight ==
    BagToSet(cyc)

\* start() invocations awaiting their first cycle
FirstCycles ==
    LET first == {k \in InFlight : k.byStart}
    IN  BagCardinality([k \in first |-> cyc[k]])

Lowest(S) ==
    CHOOSE x \in S : \A y \in S : x <= y

\* the handle setInterval returns: one no live timer has
NewTimer(tm) ==
    Lowest((1..MaxTimers) \ tm)

\* The observer's record of a step: the control call that returned and its
\* result, the adapters' answers to testConnection and the balance start()
\* fetched (0 when none), what a cycle did, where
\* that cycle stood and whether start() called it, the symbols it tried to
\* close and those it submitted a buy order for, both in order.
NoEvent ==
    [ call |-> "none", ret |-> "none", alpacaOk |-> "none", krakenOk |-> "none",
      cycle |-> "none", pc |-> "none", byStart |-> FALSE,
      closes |-> <<>>, buys |-> <<>>, balance |-> 0 ]

CallEvent(call, ret) ==
    [NoEvent EXCEPT !.call = call, !.ret = ret]

CycleEvent(k, what) ==
    [NoEvent EXCEPT !.cycle = what, !.pc = k.pc, !.byStart = k.byStart]

\* no call under examination
Idle ==
    [ op |-> "none" ]

\* the state after the constructors, cfg being what the RiskManager's left
\* of the configuration it was given
Constructed(cfg) ==
    /\ fn = Idle
    /\ status = "stopped"
    /\ scanInterval = 0
    /\ timers = {}
    /\ stats = [tradesExecuted |-> 0, errors |-> 0]
    /\ today = 0
    /\ dailyStats = InitDailyStats(0)
    /\ config = cfg
    /\ cyc = EmptyBag
    /\ starting = 0
    /\ ev = NoEvent
    /\ haltedSince = FALSE

Init ==
    Constructed(DefaultConfig)

\* the invocation k goes on to its next await, as k2
Continue(k, k2, event) ==
    /\ cyc' = (cyc (-) SetToBag({k})) (+) SetToBag({k2})
    /\ ev' = event
    /\ UNCHANGED <<status, scanInterval, timers, haltedSince>>

\* start() resumes after `await this.runScanCycle()`: setInterval, return true
StartResume(tm, event) ==
    /\ timers' = tm \cup {NewTimer(tm)}
    /\ scanInterval' = NewTimer(tm)
    /\ ev' = [event EXCEPT !.call = "start", !.ret = "true"]

\* mutant: a halt that cancels the timer and leaves the state as it is
EndCycleKeepsState(k, stopped, event) ==
    LET tm == IF stopped THEN timers \ {scanInterval} ELSE timers
        si == IF stopped THEN 0 ELSE scanInterval
    IN  /\ cyc' = cyc (-) SetToBag({k})
        /\ status' = status
        /\ haltedSince' = (stopped \/ haltedSince)
        /\ IF k.byStart
           THEN StartResume(tm, event)
           ELSE /\ timers' = tm
                /\ scanInterval' = si
                /\ ev' = event

\* The invocation k returns, having called this.stop() first when `stopped`;
\* the start() that awaits it, if any, resumes.
EndCycle(k, stopped, event) ==
    LET tm == IF stopped THEN timers \ {scanInterval} ELSE timers
        si == IF stopped THEN 0 ELSE scanInterval
    IN  /\ cyc' = cyc (-) SetToBag({k})
        /\ status' = IF stopped THEN "stopped" ELSE status
        /\ haltedSince' = (stopped \/ haltedSince)
        /\ IF k.byStart
           THEN StartResume(tm, event)
           ELSE /\ timers' = tm
                /\ scanInterval' = si
                /\ ev' = event

\* mutant: a catch that also stops the bot
CatchErrorStops(k) ==
    /\ stats.errors < MaxErrors
    /\ stats' = [stats EXCEPT !.errors = @ + 1]
    /\ EndCycle(k, TRUE, CycleEvent(k, "error"))

\* the catch of runScanCycle
CatchError(k) ==
    /\ stats.errors < MaxErrors
    /\ stats' = [stats EXCEPT !.errors = @ + 1]
    /\ EndCycle(k, FALSE, CycleEvent(k, "error"))

\* mutant: start() refused only when both venues fail
ConnectionsFailedBoth(alpacaOk, krakenOk) ==
    ~alpacaOk /\ ~krakenOk

\* start(), line 46
ConnectionsFailed(alpacaOk, krakenOk) ==
    ~alpacaOk \/ ~krakenOk

\* start(): the guard, up to the first await
StartCall ==
    /\ haltedSince' = FALSE
    /\ IF status = "running"
       THEN /\ ev' = CallEvent("start", "false")
            /\ UNCHANGED starting
       ELSE /\ Cardinality(timers) + starting + FirstCycles < MaxTimers
            /\ starting' = starting + 1
            /\ ev' = CallEvent("start", "none")
    /\ UNCHANGED <<status, scanInterval, timers, stats, dailyStats, config, fn,
                   today, cyc>>

\* start(): both testConnection calls and getTotalBalance() settled; the
\* check, resetDailyStats, the state, and the first runScanCycle() up to its
\* first await
StartProceed ==
    /\ starting > 0
    /\ starting' = starting - 1
    /\ \E alpacaOk \in BOOLEAN, krakenOk \in BOOLEAN :
          LET event == [NoEvent EXCEPT
                           !.alpacaOk = IF alpacaOk THEN "ok" ELSE "failed",
                           !.krakenOk = IF krakenOk THEN "ok" ELSE "failed"]
          IN  IF ConnectionsFailed(alpacaOk, krakenOk)
              THEN /\ ev' = [event EXCEPT !.call = "start", !.ret = "false"]
                   /\ UNCHANGED <<status, dailyStats, cyc>>
              ELSE \/ /\ ev' = [event EXCEPT !.call = "start", !.ret = "throws"]
                      /\ UNCHANGED <<status, dailyStats, cyc>>
                   \/ /\ BagCardinality(cyc) < MaxCycles
                      /\ \E balance \in Balances :
                            /\ dailyStats' = ResetDailyStats(dailyStats, balance, today)
                            /\ ev' = [event EXCEPT !.cycle = "begin",
                                                   !.byStart = TRUE,
                                                   !.balance = balance]
                      /\ status' = "running"
                      /\ cyc' = cyc (+) SetToBag({NewCycle(TRUE)})
    /\ UNCHANGED <<scanInterval, timers, stats, config, fn, today, haltedSince>>

\* mutant: pause() that forgets the handle without clearInterval
PauseKeepsTimer ==
    /\ IF status # "running"
       THEN /\ ev' = CallEvent("pause", "false")
            /\ UNCHANGED <<status, scanInterval, timers>>
       ELSE /\ status' = "paused"
            /\ timers' = timers
            /\ scanInterval' = 0
            /\ ev' = CallEvent("pause", "true")
    /\ UNCHANGED <<stats, dailyStats, config, fn, today, cyc, starting, haltedSince>>

Pause ==
    /\ IF status # "running"
       THEN /\ ev' = CallEvent("pause", "false")
            /\ UNCHANGED <<status, scanInterval, timers>>
       ELSE /\ status' = "paused"
            /\ timers' = timers \ {scanInterval}
            /\ scanInterval' = 0
            /\ ev' = CallEvent("pause", "true")
    /\ UNCHANGED <<stats, dailyStats, config, fn, today, cyc, starting, haltedSince>>

Stop ==
    /\ status' = "stopped"
    /\ timers' = timers \ {scanInterval}
    /\ scanInterval' = 0
    /\ ev' = CallEvent("stop", "true")
    /\ UNCHANGED <<stats, dailyStats, config, fn, today, cyc, starting, haltedSince>>

\* the setInterval callback: runScanCycle() up to its first await
Tick(t) ==
    /\ t \in timers
    /\ IF status # "running"
       THEN /\ ev' = [NoEvent EXCEPT !.cycle = "skip"]
            /\ UNCHANGED cyc
       ELSE /\ BagCardinality(cyc) < MaxCycles
            /\ cyc' = cyc (+) SetToBag({NewCycle(FALSE)})
            /\ ev' = [NoEvent EXCEPT !.cycle = "begin"]
    /\ UNCHANGED <<status, scanInterval, timers, stats, dailyStats, config, fn,
                   today, starting, haltedSince>>

\* mutant: the circuit breaker checked before the daily limits
CycleFetchBreakerFirst(k) ==
    /\ k.pc = "fetch"
    /\ \/ /\ CatchError(k)
          /\ UNCHANGED dailyStats
       \/ \E balance \in Balances :
             LET ds == UpdateDailyPnL(dailyStats, balance)
             IN  /\ dailyStats' = ds
                 /\ UNCHANGED stats
                 /\ IF CheckCircuitBreaker(ds, balance)
                    THEN Continue(k, [k EXCEPT !.pc = "liquidate"],
                                  CycleEvent(k, "step"))
                    ELSE IF ShouldStopTrading(ds, config)
                    THEN EndCycle(k, TRUE, CycleEvent(k, "halt"))
                    ELSE Continue(k, [k EXCEPT !.pc = "rest"],
                                  CycleEvent(k, "step"))
    /\ UNCHANGED <<config, fn, today, starting>>

\* runScanCycle, lines 119-144: isMarketOpen, getTotalBalance and
\* getAllPositions settled; updateDailyPnL, the daily limits, the circuit
\* breaker.
CycleFetch(k) ==
    /\ k.pc = "fetch"
    /\ \/ /\ CatchError(k)
          /\ UNCHANGED dailyStats
       \/ \E balance \in Balances :
             LET ds == UpdateDailyPnL(dailyStats, balance)
             IN  /\ dailyStats' = ds
                 /\ UNCHANGED stats
                 /\ IF ShouldStopTrading(ds, config)
                    THEN EndCycle(k, TRUE, CycleEvent(k, "halt"))
                    ELSE IF CheckCircuitBreaker(ds, balance)
                    THEN Continue(k, [k EXCEPT !.pc = "liquidate"],
                                  CycleEvent(k, "step"))
                    ELSE Continue(k, [k EXCEPT !.pc = "rest"],
                                  CycleEvent(k, "step"))
    /\ UNCHANGED <<config, fn, today, starting>>

\* runScanCycle, lines 141-143, and closeAllPositions:
\* alpacaService.closeAllPositions(), then krakenService.closePosition for
\* each position Kraken reports.  Any of them may throw, which leaves the
\* rest undone and reaches the catch.
CycleLiquidate(k) ==
    /\ k.pc = "liquidate"
    /\ \/ CatchError(k)
       \/ \E kp \in KrakenPositionFetches :
             \/ /\ kp # <<>>
                /\ CatchError(k)
             \/ /\ UNCHANGED stats
                /\ EndCycle(k, TRUE, CycleEvent(k, "breaker"))
    /\ UNCHANGED <<dailyStats, config, fn, today, starting>>

\* mutant: the rest of the cycle re-checks the state and is abandoned once
\* the bot has left "running"
CycleScanAndTradeWhileRunning(k) ==
    /\ k.pc = "rest"
    /\ IF status # "running"
       THEN /\ UNCHANGED stats
            /\ EndCycle(k, FALSE, CycleEvent(k, "ok"))
       ELSE \E ap \in AlpacaPositionFetches, kp \in KrakenPositionFetches,
               opportunities \in OpportunityLists :
               LET positions == ap \o kp
               IN  \E done \in { ExecuteTrades(opportunities, positions, outcomes, config) :
                                   outcomes \in OutcomeChoices(opportunities) } :
                      /\ stats.tradesExecuted + done.executed <= MaxTrades
                      /\ stats' = [stats EXCEPT !.tradesExecuted = @ + done.executed]
                      /\ EndCycle(k, FALSE,
                            [CycleEvent(k, "ok") EXCEPT
                                !.closes = CheckPositions(positions, config),
                                !.buys = done.buys])
    /\ UNCHANGED <<dailyStats, config, fn, today, starting>>

\* runScanCycle, lines 146-177: checkPositions, scanner.scanAll,
\* findBestOpportunities(scanResults.buy, 50, 5), executeTrades.  The list
\* getAllPositions() returned at line 126 is first read here, so its value
\* is drawn here.
CycleScanAndTrade(k) ==
    /\ k.pc = "rest"
    /\ \E ap \in AlpacaPositionFetches, kp \in KrakenPositionFetches,
          opportunities \in OpportunityLists :
          LET positions == ap \o kp
          IN  \E done \in { ExecuteTrades(opportunities, positions, outcomes, config) :
                              outcomes \in OutcomeChoices(opportunities) } :
                 /\ stats.tradesExecuted + done.executed <= MaxTrades
                 /\ stats' = [stats EXCEPT !.tradesExecuted = @ + done.executed]
                 /\ EndCycle(k, FALSE,
                       [CycleEvent(k, "ok") EXCEPT
                           !.closes = CheckPositions(positions, config),
                           !.buys = done.buys])
    /\ UNCHANGED <<dailyStats, config, fn, today, starting>>

\* the calendar date changes
NewDay ==
    /\ today < MaxDay
    /\ today' = today + 1
    /\ ev' = NoEvent
    /\ UNCHANGED <<status, scanInterval, timers, stats, dailyStats, config, fn,
                   cyc, starting, haltedSince>>

Next ==
    \/ StartCall
    \/ StartProceed
    \/ Pause
    \/ Stop
    \/ \E t \in timers : Tick(t)
    \/ \E k \in InFlight : CycleFetch(k)
    \/ \E k \in InFlight : CycleLiquidate(k)
    \/ \E k \in InFlight : CycleScanAndTrade(k)
    \/ NewDay

Spec ==
    Init /\ [][Next]_vars

-----------------------------------------------------------------------------
(* The bot left to run: start() may be called, pause() and stop() are not. *)
(* Every await returns (an adapter answers or throws, a timer that is live *)
(* fires): the event loop runs every continuation that is ready.           *)

\* the program points and locals an invocation of runScanCycle may have
CycleStates ==
    [ pc : {"fetch", "liquidate", "rest"}, byStart : BOOLEAN ]

LiveNext ==
    \/ StartCall
    \/ StartProceed
    \/ \E t \in timers : Tick(t)
    \/ \E k \in InFlight : CycleFetch(k)
    \/ \E k \in InFlight : CycleLiquidate(k)
    \/ \E k \in InFlight : CycleScanAndTrade(k)
    \/ NewDay

Fairness ==
    /\ WF_vars(StartProceed)
    /\ \A t \in 1..MaxTimers : WF_vars(Tick(t))
    /\ \A k \in CycleStates :
          /\ WF_vars(k \in InFlight /\ CycleFetch(k))
          /\ WF_vars(k \in InFlight /\ CycleLiquidate(k))
          /\ WF_vars(k \in InFlight /\ CycleScanAndTrade(k))

LiveSpec ==
    Init /\ [][LiveNext]_vars /\ Fairness

-----------------------------------------------------------------------------
(* The risk manager alone: its methods called in any order, any day *)

botVars ==
    <<status, scanInterval, timers, stats, cyc, starting, ev, haltedSince>>

RiskInit ==
    \E cfg \in Configs : Constructed(cfg)

\* balances the risk manager may be handed: those of the orchestrator's
\* model, and a session opened on 5000 with 5.2%, 5% and 4.8% lost
SessionBalances ==
    Balances \cup {4740, 4750, 4760, 5000}

\* riskManager.resetDailyStats(balance)
ResetCall ==
    /\ \E balance \in SessionBalances :
          /\ dailyStats' = ResetDailyStats(dailyStats, balance, today)
          /\ fn' = [ op |-> "resetDailyStats", balance |-> balance ]
    /\ UNCHANGED <<botVars, config, today>>

\* riskManager.updateDailyPnL(balance)
UpdateCall ==
    /\ \E balance \in SessionBalances :
          /\ dailyStats' = UpdateDailyPnL(dailyStats, balance)
          /\ fn' = [ op |-> "updateDailyPnL", balance |-> balance ]
    /\ UNCHANGED <<botVars, config, today>>

\* symbol.includes('/'), on the symbols of the model
IncludesSlash(symbol) ==
    \E j \in 1..Len(CryptoNames) : CryptoNames[j] = symbol

\* mutant: the whole balance may be spent, without the 5% buffer
ValidateTradeNoBuffer(tradeType, symbol, quantity, price, currentPositions, accountBalance, ds, cfg) ==
    LET exchange == IF IncludesSlash(symbol) THEN "Kraken" ELSE "Alpaca"
    IN  IF tradeType = "buy" /\ ~CanOpenPosition(currentPositions, exchange, cfg)
        THEN [ valid |-> FALSE, reason |-> "Position limit reached" ]
        ELSE IF tradeType = "buy" /\ quantity * price > accountBalance
        THEN [ valid |-> FALSE, reason |-> "Insufficient balance" ]
        ELSE IF ShouldStopTrading(ds, cfg)
        THEN [ valid |-> FALSE, reason |-> "Daily limits reached" ]
        ELSE [ valid |-> TRUE, reason |-> "" ]

\* validateTrade; requiredAmount > accountBalance * 0.95, on whole amounts;
\* reason "" stands for a result without a reason
ValidateTrade(tradeType, symbol, quantity, price, currentPositions, accountBalance, ds, cfg) ==
    LET exchange == IF IncludesSlash(symbol) THEN "Kraken" ELSE "Alpaca"
    IN  IF tradeType = "buy" /\ ~CanOpenPosition(currentPositions, exchange, cfg)
        THEN [ valid |-> FALSE, reason |-> "Position limit reached" ]
        ELSE IF tradeType = "buy" /\ quantity * price * 100 > accountBalance * 95
        THEN [ valid |-> FALSE, reason |-> "Insufficient balance" ]
        ELSE IF ShouldStopTrading(ds, cfg)
        THEN [ valid |-> FALSE, reason |-> "Daily limits reached" ]
        ELSE [ valid |-> TRUE, reason |-> "" ]

\* riskManager.validateTrade(tradeType, symbol, quantity, price,
\* currentPositions, accountBalance): orders worth 5, 95 and 100 on a
\* balance of 100
ValidateCall ==
    /\ \E tradeType \in {"buy", "sell"}, symbol \in {"AAPL", "BTC/EUR"},
          quantity \in {1, 19, 20},
          currentPositions \in {HeldList(0, 0), HeldList(1, 2), HeldList(3, 2)} :
          fn' = [ op |-> "validateTrade", tradeType |-> tradeType,
                  symbol |-> symbol, quantity |-> quantity, price |-> 5,
                  positions |-> currentPositions, balance |-> 100,
                  result |-> ValidateTrade(tradeType, symbol, quantity, 5,
                                           currentPositions, 100, dailyStats,
                                           config) ]
    /\ UNCHANGED <<botVars, dailyStats, config, today>>

\* riskManager.checkCircuitBreaker(balance)
BreakerCall ==
    /\ \E balance \in SessionBalances :
          fn' = [ op |-> "checkCircuitBreaker", balance |-> balance,
                  result |-> CheckCircuitBreaker(dailyStats, balance) ]
    /\ UNCHANGED <<botVars, dailyStats, config, today>>

\* riskManager.getRiskStats(); `after` is the call of the risk manager it
\* follows
StatsCall ==
    /\ fn' = [ op |-> "getRiskStats",
               after |-> IF fn.op = "getRiskStats" THEN fn.after ELSE fn,
               result |-> GetRiskStats(dailyStats, config) ]
    /\ UNCHANGED <<botVars, dailyStats, config, today>>

RiskNext ==
    \/ StatsCall
    \/ ResetCall
    \/ UpdateCall
    \/ BreakerCall
    \/ ValidateCall
    \/ NewDay

RiskSpec ==
    RiskInit /\ [][RiskNext]_vars

-----------------------------------------------------------------------------
(* Single calls of the orchestrator's, the scanner's, the strategy's and   *)
(* the risk manager's methods, on arguments drawn from bounded sets, taken  *)
(* one await at a time.  A call reads nothing an earlier call has left (the *)
(* configuration is fixed at construction), so each is taken from the       *)
(* state after construction.                                                *)

\* longest opportunity list handed to executeTrades
MaxOpps ==
    3

\* signals executeTrades may be handed as opportunities
Candidates ==
    { Signal("AAPL", "Alpaca", "BUY", 60),
      Signal("MSFT", "Alpaca", "BUY", 60),
      Signal("BTC/EUR", "Kraken", "BUY", 80) }

RECURSIVE SeqsUpTo(_, _)
\* the sequences over S of length n at most
SeqsUpTo(S, n) ==
    IF n = 0 THEN { <<>> }
    ELSE LET shorter == SeqsUpTo(S, n - 1)
         IN  shorter \cup { Append(q, x) : q \in shorter, x \in S }

\* lists getAllPositions() may have returned to the cycle
PositionLists ==
    { <<>>,
      <<Position("AAPL", "Alpaca", 1)>>,
      <<Position("BTC/EUR", "Kraken", 0)>>,
      <<Position("AAPL", "Alpaca", 1), Position("BTC/EUR", "Kraken", 0)>>,
      <<Position("AAPL", "Alpaca", 1), Position("TSLA", "Alpaca", 1)>> }

CallInit ==
    \E cfg \in Configs : Constructed(cfg)

\* why the loop of executeTrades left a candidate, or how its awaits went
StepLabel(acc, opp, outcome, cfg) ==
    IF ~CanOpenPosition(acc.positions, opp.exchange, cfg) THEN "limit"
    ELSE IF HasPosition(acc.positions, opp.symbol) THEN "held"
    ELSE outcome

\* executeTrades(opportunities, currentPositions, balance) is entered
TradesCall(opportunities, currentPositions) ==
    [ op |-> "executeTrades", candidates |-> TopCandidates(opportunities),
      fetched |-> currentPositions, i |-> 1, acc |-> NoTrades(currentPositions),
      last |-> "none", order |-> <<>> ]

TradesBegin ==
    /\ fn = Idle
    /\ \E opportunities \in SeqsUpTo(Candidates, MaxOpps) \ { <<>> },
          currentPositions \in PositionLists :
          fn' = TradesCall(opportunities, currentPositions)
    /\ UNCHANGED <<botVars, dailyStats, config, today>>

\* what the scans of a cycle over three stocks and two crypto pairs may
\* yield, stocks first, each asset yielding a signal or none
RankedStockScans ==
    { a \o m \o t :
        a \in { <<>>, <<Signal("AAPL", "Alpaca", "BUY", 60)>>,
                <<Signal("AAPL", "Alpaca", "BUY", 40)>> },
        m \in { <<>>, <<Signal("MSFT", "Alpaca", "BUY", 90)>> },
        t \in { <<>>, <<Signal("TSLA", "Alpaca", "BUY", 60)>> } }

RankedCryptoScans ==
    { b \o e :
        b \in { <<>>, <<Signal("BTC/EUR", "Kraken", "BUY", 80)>>,
                <<Signal("BTC/EUR", "Kraken", "SELL", 90)>> },
        e \in { <<>>, <<Signal("ETH/EUR", "Kraken", "BUY", 70)>> } }

\* runScanCycle, lines 155-172, scanAll having resolved: the best
\* opportunities of its result are taken and, if there are any,
\* executeTrades is entered; `scanned` is scanResults.all, `opportunities`
\* the list handed to executeTrades
CycleTradesBegin ==
    /\ fn = Idle
    /\ \E stockSignals \in RankedStockScans, cryptoSignals \in RankedCryptoScans,
          currentPositions \in PositionLists :
          LET scanResults == ScanAll(stockSignals, cryptoSignals)
              opportunities == FindBestOpportunities(scanResults.buy, 50, 5)
          IN  /\ opportunities # <<>>
              /\ fn' = TradesCall(opportunities, currentPositions)
                          @@ [ scanned |-> scanResults.all,
                               opportunities |-> opportunities ]
    /\ UNCHANGED <<botVars, dailyStats, config, today>>

\* One turn of the loop of executeTrades, lines 206-243, with executeBuyStock
\* or executeBuyCrypto: the venue's balance, the candidate's currentPrice and
\* the minimum order size decide whether the candidate is too small; `order`
\* is the quantity handed to the adapter's buy in this turn, with its
\* symbol and the price and the balance it was sized on, <<>> when buy was
\* not called.
TradesStep ==
    /\ fn.op = "executeTrades"
    /\ fn.i <= Len(fn.candidates)
    /\ LET opp == fn.candidates[fn.i]
       IN  \E outcome \in TradeOutcomes(opp.exchange),
              venueBalance \in VenueBalances, currentPrice \in SignalPrices,
              minOrder \in MinOrderSizes :
              LET label == StepLabel(fn.acc, opp, outcome, config)
                  sized == IF opp.exchange = "Alpaca"
                           THEN ExecuteBuyStock(venueBalance, currentPrice, config)
                           ELSE ExecuteBuyCrypto(venueBalance, currentPrice,
                                                 minOrder, config)
                  submitted == label \in {"buyThrows", "bought"}
              IN  /\ label = "tooSmall" => sized = <<>>
                  /\ submitted => sized # <<>>
                  /\ fn' = [fn EXCEPT
                              !.i = @ + 1,
                              !.acc = TradeOne(fn.acc, opp, outcome, config),
                              !.last = label,
                              !.order = IF submitted
                                        THEN <<[ symbol |-> opp.symbol,
                                                 quantity |-> sized[1],
                                                 price |-> currentPrice,
                                                 balance |-> venueBalance ]>>
                                        ELSE <<>>]
    /\ UNCHANGED <<botVars, dailyStats, config, today>>

\* the universe of the scans examined: stocks first, then crypto pairs
ScanStockSymbols ==
    <<"AAPL", "MSFT">>

ScanCryptoSymbols ==
    <<"BTC/EUR">>

ScanAssets ==
    1..(Len(ScanStockSymbols) + Len(ScanCryptoSymbols))

\* a scan that has not settled
NotSettled ==
    [ threw |-> FALSE, len |-> 0, res |-> <<>> ]

\* scanner.scanAll(stockSymbols, cryptoConfigs) is entered: every scanStock
\* and scanCrypto is issued
ScanBegin ==
    /\ fn = Idle
    /\ \E strategy \in Strategies :
          fn' = [ op |-> "scanAll", strategy |-> strategy,
                  pending |-> ScanAssets, got |-> [a \in ScanAssets |-> NotSettled] ]
    /\ UNCHANGED <<botVars, dailyStats, config, today>>

\* the scan of asset a settles
ScanSettle(a) ==
    /\ fn.op = "scanAll"
    /\ a \in fn.pending
    /\ \E fetch \in Fetches :
          LET res == IF a <= Len(ScanStockSymbols)
                     THEN ScanStock(ScanStockSymbols[a], fetch, fn.strategy)
                     ELSE ScanCrypto(ScanCryptoSymbols[a - Len(ScanStockSymbols)],
                                     fetch, fn.strategy)
          IN  fn' = [fn EXCEPT !.pending = @ \ {a},
                               !.got[a] = [ threw |-> fetch.throws,
                                            len |-> fetch.len, res |-> res ]]
    /\ UNCHANGED <<botVars, dailyStats, config, today>>

\* the signals scanStocks and scanCryptos hand to scanAll
ScannedStocks(got) ==
    Flatten([i \in 1..Len(ScanStockSymbols) |-> got[i].res], Len(ScanStockSymbols))

ScannedCryptos(got) ==
    Flatten([i \in 1..Len(ScanCryptoSymbols) |-> got[Len(ScanStockSymbols) + i].res],
            Len(ScanCryptoSymbols))

\* mutant: the join of a race, which resolves on the first scan to settle
ScanJoinEarly ==
    /\ fn.op = "scanAll"
    /\ fn.pending # ScanAssets
    /\ LET result == ScanAll(ScannedStocks(fn.got), ScannedCryptos(fn.got))
       IN  fn' = [ op |-> "scanned", got |-> fn.got, result |-> result,
                   opportunities |-> FindBestOpportunities(result.buy, 50, 5) ]
    /\ UNCHANGED <<botVars, dailyStats, config, today>>

\* Promise.allSettled in scanStocks and scanCryptos, Promise.all in scanAll:
\* scanAll resolves when every scan has settled; then runScanCycle takes the
\* best opportunities (lines 164-168)
ScanJoin ==
    /\ fn.op = "scanAll"
    /\ fn.pending = {}
    /\ LET result == ScanAll(ScannedStocks(fn.got), ScannedCryptos(fn.got))
       IN  fn' = [ op |-> "scanned", got |-> fn.got, result |-> result,
                   opportunities |-> FindBestOpportunities(result.buy, 50, 5) ]
    /\ UNCHANGED <<botVars, dailyStats, config, today>>

\* runScanCycle, lines 171-175: executeTrades on the opportunities, if any
TradesFromScan ==
    /\ fn.op = "scanned"
    /\ IF fn.opportunities = <<>>
       THEN fn' = Idle
       ELSE \E currentPositions \in PositionLists :
               fn' = TradesCall(fn.opportunities, currentPositions)
    /\ UNCHANGED <<botVars, dailyStats, config, today>>

\* the positions checkPositions may be handed, by symbol and venue
HeldSymbols ==
    <<"AAPL", "TSLA", "BTC/EUR">>

HeldExchanges ==
    <<"Alpaca", "Alpaca", "Kraken">>

\* their profitLossPercent: at and beyond the default stop-loss (2) and
\* take-profit (4), and between them
ExitLevels ==
    {-3, -2, 0, 3, 4}

\* checkPositions(positions) is entered
ChecksBegin ==
    /\ fn = Idle
    /\ \E levels \in SeqsUpTo(ExitLevels, Len(HeldSymbols)) \ { <<>> } :
          fn' = [ op |-> "checkPositions",
                  positions |-> [j \in 1..Len(levels) |->
                                   Position(HeldSymbols[j], HeldExchanges[j], levels[j])],
                  i |-> 1, acc |-> NoChecks ]
    /\ UNCHANGED <<botVars, dailyStats, config, today>>

\* one turn of the loop of checkPositions, lines 189-197
ChecksStep ==
    /\ fn.op = "checkPositions"
    /\ fn.i <= Len(fn.positions)
    /\ ~fn.acc.thrown
    /\ \E outcome \in {"closed", "closeThrows"} :
          fn' = [fn EXCEPT !.i = @ + 1,
                           !.acc = CheckOne(fn.acc, fn.positions[fn.i], outcome, config)]
    /\ UNCHANGED <<botVars, dailyStats, config, today>>

\* riskManager.canOpenPosition(currentPositions, exchange)
CanOpenCall ==
    /\ fn = Idle
    /\ \E currentPositions \in HeldLists, exchange \in {"Alpaca", "Kraken"} :
          fn' = [ op |-> "canOpenPosition", positions |-> currentPositions,
                  exchange |-> exchange,
                  result |-> CanOpenPosition(currentPositions, exchange, config) ]
    /\ UNCHANGED <<botVars, dailyStats, config, today>>

\* riskManager.calculatePositionSize(accountBalance, price)
StockSizeCall ==
    /\ fn = Idle
    /\ \E accountBalance \in VenueBalances, price \in SignalPrices :
          fn' = [ op |-> "calculatePositionSize", balance |-> accountBalance,
                  price |-> price,
                  result |-> CalculatePositionSize(accountBalance, price, config) ]
    /\ UNCHANGED <<botVars, dailyStats, config, today>>

\* riskManager.calculateCryptoPositionSize(accountBalance, price)
CryptoSizeCall ==
    /\ fn = Idle
    /\ \E accountBalance \in VenueBalances, price \in SignalPrices :
          fn' = [ op |-> "calculateCryptoPositionSize", balance |-> accountBalance,
                  price |-> price,
                  result |-> CalculateCryptoPositionSize(accountBalance, price,
                                                         config) ]
    /\ UNCHANGED <<botVars, dailyStats, config, today>>

\* thresholds the strategy may be constructed with (RSI_OVERSOLD,
\* RSI_OVERBOUGHT)
ClassifyStrategies ==
    { [DefaultStrategy EXCEPT !.oversold = o, !.overbought = b] :
        o \in {20, 30}, b \in {70, 80} }

\* values generateSignal may be handed: none (<<>>), values of the indicator
\* below, at, between and above the thresholds, and numbers outside [0,100]
ClassifyValues ==
    { <<>> } \cup { <<v>> : v \in {-6, 0, 15, 20, 30, 50, 70, 80, 85, 100, 106} }

\* strategy.generateSignal(rsi)
SignalCall ==
    /\ fn = Idle
    /\ \E rsi \in ClassifyValues, strategy \in ClassifyStrategies :
          fn' = [ op |-> "generateSignal", rsi |-> rsi, strategy |-> strategy,
                  result |-> GenerateSignal(rsi, strategy) ]
    /\ UNCHANGED <<botVars, dailyStats, config, today>>

\* the series of n closes that starts at `first` and moves by steps[j]
RECURSIVE Series(_, _, _)
Series(first, steps, n) ==
    IF n = 1 THEN <<first>>
    ELSE LET before == Series(first, steps, n - 1)
         IN  Append(before, before[n - 1] + steps[((n - 2) % Len(steps)) + 1])

\* histories getHistoricalData may return: constant prices (short of, at
\* and past the warm-up of either period), and rising, falling and mixed
\* ones of 15 closes
Histories ==
    { Series(p, <<0>>, n) : p \in {7, 100}, n \in {14, 15, 16, 21, 22} }
    \cup { Series(100, steps, 15) :
             steps \in { <<1>>, <<-1>>, <<1, -1>>, <<-4, 1>> } }

\* strategy.analyze(historicalData)
AnalyzeCall ==
    /\ fn = Idle
    /\ \E historicalData \in Histories, strategy \in Strategies :
          LET rsi == IF Len(historicalData) < strategy.period + 1 THEN 0
                     ELSE LastRSI(historicalData, strategy.period)
          IN  fn' = [ op |-> "analyze", historicalData |-> historicalData,
                      strategy |-> strategy,
                      rsi |-> CalculateRSI(Len(historicalData), rsi, strategy),
                      result |-> Analyze(Len(historicalData), rsi, strategy) ]
    /\ UNCHANGED <<botVars, dailyStats, config, today>>

\* longest list of signals handed to findBestOpportunities
MaxSignals ==
    3

\* signals a scan may have produced
SignalPool ==
    { Signal("AAPL", "Alpaca", "BUY", 60),
      Signal("MSFT", "Alpaca", "BUY", 80),
      Signal("BTC/EUR", "Kraken", "SELL", 60),
      Signal("ETH/EUR", "Kraken", "BUY", 40),
      Signal("TSLA", "Alpaca", "HOLD", 0) }

\* scanner.findBestOpportunities(signals, minStrength, limit), and once more
\* on what it returned
FindBestCall ==
    /\ fn = Idle
    /\ \E signals \in SeqsUpTo(SignalPool, MaxSignals),
          minStrength \in {0, 50}, limit \in {1, 2, 5} :
          LET result == FindBestOpportunities(signals, minStrength, limit)
          IN  fn' = [ op |-> "findBestOpportunities", signals |-> signals,
                      minStrength |-> minStrength, limit |-> limit,
                      after |-> SignalsAfterFindBest(signals),
                      result |-> result,
                      again |-> FindBestOpportunities(result, minStrength, limit) ]
    /\ UNCHANGED <<botVars, dailyStats, config, today>>

\* lists getAllPositions() may return to a cycle: the stock positions, beyond
\* the stop-loss or within the exit levels, then the crypto positions
ExitLists ==
    { [j \in 1..Len(levels) |-> Position(StockNames[j], "Alpaca", levels[j])] \o kp :
        levels \in SeqsUpTo({-3, 0}, 2),
        kp \in { <<>>, <<KrakenPosition("BTC/EUR")>> } }

\* runScanCycle, lines 152-172, on the list `positions` of line 126:
\* checkPositions(positions), then (the scan having found `opportunities`)
\* executeTrades(opportunities, positions, balance)
CycleRestCall ==
    /\ fn = Idle
    /\ \E positions \in ExitLists,
          opportunities \in SeqsUpTo(Candidates, 2) \ { <<>> } :
          \E closeOutcomes \in [1..Len(positions) -> {"closed", "closeThrows"}],
             outcomes \in OutcomeChoices(opportunities) :
             fn' = [ op |-> "cycleRest", positions |-> positions,
                     opportunities |-> opportunities,
                     checked |-> CheckPositionsFrom(positions, 1, NoChecks,
                                                    closeOutcomes, config),
                     done |-> ExecuteTrades(opportunities,
                                            PositionsAfterChecks(positions, config),
                                            outcomes, config) ]
    /\ UNCHANGED <<botVars, dailyStats, config, today>>

CallNext ==
    \/ CycleRestCall
    \/ FindBestCall
    \/ AnalyzeCall
    \/ SignalCall
    \/ CanOpenCall
    \/ StockSizeCall
    \/ CryptoSizeCall
    \/ ChecksBegin
    \/ ChecksStep
    \/ TradesBegin
    \/ CycleTradesBegin
    \/ TradesStep
    \/ ScanBegin
    \/ \E a \in ScanAssets : ScanSettle(a)
    \/ ScanJoin
    \/ TradesFromScan

CallSpec ==
    CallInit /\ [][CallNext]_vars

-----------------------------------------------------------------------------
(* Properties *)

\* C1: once a cycle has stopped the bot on a halt condition (daily limit or
\* circuit breaker), no timer tick starts executing a cycle until start() is
\* called again.
C1_NoTickAfterHalt ==
    [][haltedSince => ~(ev'.cycle = "begin" /\ ~ev'.byStart)]_vars

\* C2: at most one scan cycle is active: while a cycle a timer tick started
\* is in flight, it is the only invocation of runScanCycle in flight.
C2_OneActiveCycle ==
    \A k \in InFlight : ~k.byStart => BagCardinality(cyc) = 1

\* C3: at most one periodic timer exists at any time.
C3_OneTimer ==
    Cardinality(timers) <= 1

\* C4 as stated: when a start() called from Stopped or Paused finds a venue
\* unhealthy, it returns false and the bot is Stopped, with no session reset,
\* no cycle and no timer created.
C4_FailedStartLeavesStopped ==
    [][(/\ status \in {"stopped", "paused"}
        /\ (ev'.alpacaOk = "failed" \/ ev'.krakenOk = "failed"))
       => (/\ ev'.call = "start" /\ ev'.ret = "false"
           /\ status' = "stopped"
           /\ UNCHANGED <<dailyStats, cyc, timers, scanInterval>>)]_vars

\* C4 amended: a start() moves the bot to Running only when both venues
\* answered healthy; when either did not, it returns false and leaves the
\* state as it was (Stopped stays Stopped, Paused stays Paused), with no
\* session reset, no cycle and no timer created.
C4_FailedStartChangesNothing ==
    [][/\ (ev'.alpacaOk = "failed" \/ ev'.krakenOk = "failed")
          => (/\ ev'.call = "start" /\ ev'.ret = "false"
              /\ UNCHANGED <<status, dailyStats, cyc, timers, scanInterval>>)
       /\ (status # "running" /\ status' = "running")
          => (ev'.alpacaOk = "ok" /\ ev'.krakenOk = "ok")]_vars

\* a start() called while Paused has returned false on Kraken's failed test,
\* and the bot is still Paused
C4_Witness ==
    /\ ev.call = "start" /\ ev.ret = "false"
    /\ ev.alpacaOk = "ok" /\ ev.krakenOk = "failed"
    /\ status = "paused"

\* C5: a cycle in which the circuit breaker holds and no daily limit is hit
\* ends with the positions liquidated and the bot Stopped.
C5_BreakerStops ==
    [][ev'.pc = "liquidate"
       => (ev'.cycle = "breaker" /\ status' = "stopped")]_vars

\* C6: in a cycle where, after updateDailyPnL, the session P&L is at or above
\* the daily profit limit or at or below minus the daily loss limit, the bot
\* becomes Stopped and the cycle ends there: it closes nothing, scans nothing
\* and submits no order.
C6_DailyLimitHalts ==
    [][(/\ ev'.pc = "fetch" /\ ev'.cycle # "error"
        /\ \/ dailyStats'.currentPnL >= config.lucroMaximoDiario
           \/ dailyStats'.currentPnL <= -config.perdaMaximaDiaria)
       => (/\ ev'.cycle = "halt"
           /\ status' = "stopped"
           /\ cyc' = cyc (-) SetToBag({NewCycle(ev'.byStart)})
           /\ ev'.closes = <<>> /\ ev'.buys = <<>>
           /\ stats' = stats)]_vars

\* a cycle has just halted the bot with the P&L exactly at the profit limit
C6_Witness ==
    /\ ev.cycle = "halt"
    /\ dailyStats.currentPnL = config.lucroMaximoDiario
    /\ status = "stopped"

C8_StopLeavesNoTimer ==
    [][ev'.call = "stop" => (status' = "stopped" /\ timers' = {})]_vars

\* C9: a cycle past the Running guard goes on whatever the state has become:
\* at its first await it can still take the balance and go on, and past the
\* checks it can still close an exit and submit a buy.
C9_InFlightCycleCompletes ==
    \A k \in InFlight :
        /\ k.pc = "fetch"
           => ENABLED (CycleFetch(k) /\ ev'.cycle = "step")
        /\ (k.pc = "rest" /\ stats.tradesExecuted < MaxTrades)
           => ENABLED (/\ CycleScanAndTrade(k)
                       /\ ev'.closes # <<>>
                       /\ ev'.buys # <<>>)

\* a cycle of the timer has just completed, having closed an exit and
\* submitted a buy, while the bot is not Running
C9_Witness ==
    /\ ev.cycle = "ok" /\ ~ev.byStart
    /\ status # "running"
    /\ ev.closes # <<>>
    /\ ev.buys # <<>>

\* C10: an exception that reaches the catch of runScanCycle adds exactly one
\* to the error counter, leaves the state as it is and cancels no timer.
C10_CycleError ==
    [][ev'.cycle = "error"
       => (/\ stats'.errors = stats.errors + 1
           /\ stats'.tradesExecuted = stats.tradesExecuted
           /\ status' = status
           /\ timers \subseteq timers'
           /\ (~ev'.byStart => scanInterval' = scanInterval))]_vars

\* a cycle of the timer has just failed, and the bot is Running with its
\* timer live
C10_Witness ==
    /\ ev.cycle = "error" /\ ~ev.byStart
    /\ stats.errors >= 1
    /\ status = "running"
    /\ scanInterval \in timers

\* C11: the first successful start() of a calendar day (the session is the
\* constructor's untouched one, or is dated another day) opens the daily
\* session on the balance that start() fetched: startBalance is that
\* balance, currentPnL 0 and tradesCount 0.
C11_FirstStartOpensSession ==
    [][(/\ ev'.cycle = "begin" /\ ev'.byStart
        /\ \/ dailyStats.startDate # today
           \/ dailyStats = InitDailyStats(today))
       => dailyStats' = [ startBalance |-> ev'.balance, currentPnL |-> 0,
                          tradesCount |-> 0, startDate |-> today ]]_vars

\* C12: resetDailyStats on the session's own date leaves the whole session
\* (startBalance, currentPnL, tradesCount, startDate) as it was, whatever the
\* balance passed; on another date it replaces the session by a fresh one on
\* that balance.  (A step that records a reset and leaves the date alone is
\* a call of resetDailyStats.)
C12_ResetIdempotentWithinDay ==
    [][(fn'.op = "resetDailyStats" /\ today' = today)
       => IF dailyStats.startDate = today
          THEN dailyStats' = dailyStats
          ELSE dailyStats' = [ startBalance |-> fn'.balance, currentPnL |-> 0,
                               tradesCount |-> 0, startDate |-> today ]]_vars

\* a second reset of the day, with another balance than the one the session
\* was opened on, has left a session with a P&L in place
C12_Witness ==
    /\ fn.op = "resetDailyStats"
    /\ dailyStats.startDate = today
    /\ dailyStats.startBalance > 0
    /\ dailyStats.startBalance # fn.balance
    /\ dailyStats.currentPnL # 0

\* C13: a turn of the loop of executeTrades submits a buy only when the
\* in-cycle position list is below the total maximum and below the maximum
\* of the candidate's venue; and when the fetched positions are within the
\* limits, the in-cycle list stays within them after every turn.
C13_LimitsRespected ==
    [][(fn.op = "executeTrades" /\ fn'.op = "executeTrades" /\ fn'.i = fn.i + 1)
       => LET opp == fn.candidates[fn.i]
              venue(l, e) == Cardinality({j \in 1..Len(l) : l[j].exchange = e})
              max(e) == IF e = "Alpaca" THEN config.maxPosicoesStocks
                        ELSE config.maxPosicoesCrypto
              within(l) == /\ Len(l) <= config.maxPosicoes
                           /\ venue(l, "Alpaca") <= max("Alpaca")
                           /\ venue(l, "Kraken") <= max("Kraken")
          IN  /\ fn'.acc.buys # fn.acc.buys
                 => /\ Len(fn.acc.positions) < config.maxPosicoes
                    /\ venue(fn.acc.positions, opp.exchange) < max(opp.exchange)
              /\ within(fn.fetched) => within(fn'.acc.positions)]_vars

\* a candidate has just been skipped on the position limit, which the buys
\* of this call have filled
C13_Witness ==
    /\ fn.op = "executeTrades"
    /\ fn.last = "limit"
    /\ fn.acc.buys # <<>>
    /\ Len(fn.acc.positions) = config.maxPosicoes

\* C14: a turn of the loop of executeTrades submits no buy for a symbol that
\* is in the in-cycle position list, fetched or provisional; so the symbols
\* bought in one call are pairwise distinct.
C14_NoSecondBuy ==
    [][(fn.op = "executeTrades" /\ fn'.op = "executeTrades" /\ fn'.i = fn.i + 1)
       => /\ fn'.acc.buys # fn.acc.buys
             => \A j \in 1..Len(fn.acc.positions) :
                   fn.acc.positions[j].symbol # fn.candidates[fn.i].symbol
          /\ \A a, b \in 1..Len(fn'.acc.buys) :
                a # b => fn'.acc.buys[a] # fn'.acc.buys[b]]_vars

\* a candidate has just been skipped because its symbol was bought earlier
\* in the same call
C14_Witness ==
    /\ fn.op = "executeTrades"
    /\ fn.last = "held"
    /\ \E j \in 1..Len(fn.acc.buys) :
          fn.acc.buys[j] = fn.candidates[fn.i - 1].symbol

\* C15: in every turn of the loop of executeTrades the executed-trade counter
\* and the in-cycle position list grow by exactly the number of buy orders
\* submitted in that turn (one or none).
C15_CountedIffSubmitted ==
    [][(fn.op = "executeTrades" /\ fn'.op = "executeTrades" /\ fn'.i = fn.i + 1)
       => LET submitted == Len(fn'.acc.buys) - Len(fn.acc.buys)
          IN  /\ fn'.acc.executed - fn.acc.executed = submitted
              /\ Len(fn'.acc.positions) - Len(fn.acc.positions) = submitted]_vars

\* C16: when the adapter's buy throws, the turn leaves the trade counter and
\* the in-cycle position list as they were, the state of the bot is what it
\* was, and the loop moves on to the next candidate of the same list.
C16_RejectedBuy ==
    [][(/\ fn.op = "executeTrades" /\ fn'.op = "executeTrades"
        /\ fn'.i = fn.i + 1 /\ fn'.last = "buyThrows")
       => /\ fn'.acc = fn.acc
          /\ fn'.candidates = fn.candidates
          /\ UNCHANGED <<status, stats>>]_vars

\* a buy has just been rejected after an earlier one was counted, and
\* candidates remain to be processed
C16_Witness ==
    /\ fn.op = "executeTrades"
    /\ fn.last = "buyThrows"
    /\ fn.acc.executed = 1
    /\ fn.i <= Len(fn.candidates)

\* C17: a scanAll in which exactly one asset's scan throws and every other
\* asset yields a signal resolves with the other N-1 signals, and its stats
\* report an error count of exactly 1.
C17_OneThrowCountedOnce ==
    [][(/\ fn.op = "scanAll" /\ fn'.op = "scanned"
        /\ Cardinality({a \in ScanAssets : fn.got[a].threw}) = 1
        /\ \A a \in ScanAssets : fn.got[a].threw \/ fn.got[a].res # <<>>)
       => /\ Len(fn'.result.all) = Cardinality(ScanAssets) - 1
          /\ "errors" \in DOMAIN fn'.result.stats
          /\ fn'.result.stats.errors = 1]_vars

\* C18: scanAll resolves only when every scan it issued has settled, its
\* result holds the signal of every asset that yielded one, in the order of
\* the symbols, whatever the order in which the scans settled; and
\* executeTrades is entered only after that, on the BUY signals of strength
\* 50 or more of that result.
C18_ScanBarrier ==
    [][/\ fn.op = "scanAll"
          => \/ /\ fn'.op = "scanAll"
                /\ fn'.pending \subseteq fn.pending
                /\ \A a \in ScanAssets \ fn.pending : fn'.got[a] = fn.got[a]
             \/ /\ fn'.op = "scanned"
                /\ fn.pending = {}
                /\ fn'.result.all = fn.got[1].res \o fn.got[2].res \o fn.got[3].res
       /\ (fn.op = "scanned" /\ fn'.op = "executeTrades")
          => /\ Len(fn'.candidates)
                  = Cardinality({a \in ScanAssets :
                                   /\ fn.got[a].res # <<>>
                                   /\ fn.got[a].res[1].signal = "BUY"
                                   /\ fn.got[a].res[1].strength >= 50})
             /\ \A j \in 1..Len(fn'.candidates) :
                   \E a \in ScanAssets : fn.got[a].res = <<fn'.candidates[j]>>]_vars

\* scanAll has resolved after one scan threw, with the BUY signals of the
\* two other assets among its opportunities
C18_Witness ==
    /\ fn.op = "scanned"
    /\ \E a \in ScanAssets : fn.got[a].threw
    /\ Len(fn.opportunities) = 2

\* C20: whatever the configured period, a scan whose fetched history has
\* fewer than period + 1 points contributes no signal.
C20_ShortHistorySkipped ==
    [][(fn.op = "scanAll" /\ fn'.op = "scanAll")
       => \A a \in fn.pending \ fn'.pending :
             (~fn'.got[a].threw /\ fn'.got[a].len < fn.strategy.period + 1)
             => fn'.got[a].res = <<>>]_vars

\* C19: a turn of the loop of checkPositions tries to close its position
\* exactly when profitLossPercent <= -stopLossPercent or >= takeProfitPercent;
\* whether or not the close fails, no exception leaves the loop, which goes
\* on with the next position, and the error counter and the state of the bot
\* stay as they were.
C19_ExitCheck ==
    [][(fn.op = "checkPositions" /\ fn'.op = "checkPositions" /\ fn'.i = fn.i + 1)
       => LET position == fn.positions[fn.i]
              due == \/ position.profitLossPercent <= -config.stopLossPercent
                     \/ position.profitLossPercent >= config.takeProfitPercent
          IN  /\ fn'.acc.attempts = IF due THEN Append(fn.acc.attempts, position.symbol)
                                    ELSE fn.acc.attempts
              /\ ~fn'.acc.thrown
              /\ fn'.positions = fn.positions
              /\ UNCHANGED <<stats, status>>]_vars

\* checkPositions has gone through three positions: the close of the first
\* failed, the second was left alone, the third was closed
C19_Witness ==
    /\ fn.op = "checkPositions"
    /\ fn.i = 4
    /\ fn.acc.attempts = <<fn.positions[1].symbol, fn.positions[3].symbol>>
    /\ fn.acc.closed = <<fn.positions[3].symbol>>

\* C21: every buy order a turn of executeTrades hands to a venue's adapter has
\* quantity * price at most 2% of the venue balance it was sized on, the
\* aggressiveness being within [50,100] and the price positive.
C21_OrderWithinTwoPercent ==
    [][(/\ fn.op = "executeTrades" /\ fn'.op = "executeTrades"
        /\ fn'.i = fn.i + 1 /\ fn'.order # <<>>
        /\ config.agressividade \in 50..100
        /\ fn'.order[1].price > 0)
       => LET o == fn'.order[1]
          IN  o.quantity.num * o.price * 100 <= 2 * o.balance * o.quantity.den]_vars

\* C22: with one exchange disabled the bot starts on the other one alone.
\* TradingBot reads no enable flag: a disabled exchange is, to start(), an
\* adapter without an account, whose testConnection answers false.  So a
\* start() that found one venue healthy and the other one not does not
\* return false on that account.
C22_OneExchangeSuffices ==
    [][(\/ ev'.alpacaOk = "ok" /\ ev'.krakenOk = "failed"
        \/ ev'.alpacaOk = "failed" /\ ev'.krakenOk = "ok")
       => ~(ev'.call = "start" /\ ev'.ret = "false")]_vars

\* C23: canOpenPosition answers false when the open positions number
\* maxPosicoes or more, whatever the venue, false when those of the venue
\* asked about number that venue's maximum or more, and true otherwise.
C23_CanOpenPosition ==
    fn.op = "canOpenPosition"
    => LET onVenue == Cardinality({j \in 1..Len(fn.positions) :
                                     fn.positions[j].exchange = fn.exchange})
           venueMax == IF fn.exchange = "Alpaca" THEN config.maxPosicoesStocks
                       ELSE config.maxPosicoesCrypto
       IN  fn.result = ~(\/ Len(fn.positions) >= config.maxPosicoes
                         \/ onVenue >= venueMax)

\* canOpenPosition has answered false for a venue below its own maximum,
\* with exactly maxPosicoes = 5 positions open
C23_Witness ==
    /\ fn.op = "canOpenPosition"
    /\ config.maxPosicoes = 5
    /\ Len(fn.positions) = 5
    /\ fn.exchange = "Kraken"
    /\ Cardinality({j \in 1..Len(fn.positions) :
                      fn.positions[j].exchange = "Kraken"}) < config.maxPosicoesCrypto
    /\ ~fn.result

C25_PositionSize ==
    LET value == fn.balance * 2 * config.agressividade    \* positionValue * 10000
        cost(q) == q * fn.price * 10000
    IN  /\ fn.op = "calculatePositionSize"
           => /\ fn.result \in Nat /\ fn.result >= 1
              /\ IF cost(1) <= value
                 THEN cost(fn.result) <= value /\ value < cost(fn.result + 1)
                 ELSE fn.result = 1
              /\ (fn.balance = 5000 /\ fn.price = 100 /\ config.agressividade = 70)
                 => fn.result = 1
        /\ fn.op = "calculateCryptoPositionSize"
           => IF value * 1000 >= fn.price * 10000
              THEN fn.result.num * fn.price * 10000 = value * fn.result.den
              ELSE fn.result.num * 1000 = fn.result.den

\* the stock size has been clamped to 1 on balance 5000, price 100,
\* agressividade 70
C25_Witness ==
    /\ fn.op = "calculatePositionSize"
    /\ fn.balance = 5000 /\ fn.price = 100 /\ config.agressividade = 70
    /\ fn.result = 1

\* C26: generateSignal answers BUY exactly when the value is below oversold,
\* SELL exactly when it is above overbought, and HOLD otherwise, a value equal
\* to a threshold and a missing value included; with thresholds 30/70, 20
\* gives BUY, 85 SELL and 50 HOLD.
C26_Classify ==
    fn.op = "generateSignal"
    => LET present == fn.rsi # <<>>
           low == present /\ fn.rsi[1] < fn.strategy.oversold
           high == present /\ fn.rsi[1] > fn.strategy.overbought
       IN  /\ fn.result.type = "BUY" <=> low
           /\ fn.result.type = "SELL" <=> high
           /\ fn.result.type = "HOLD" <=> (~low /\ ~high)
           /\ (fn.strategy.oversold = 30 /\ fn.strategy.overbought = 70)
              => /\ fn.rsi = <<20>> => fn.result.type = "BUY"
                 /\ fn.rsi = <<85>> => fn.result.type = "SELL"
                 /\ fn.rsi = <<50>> => fn.result.type = "HOLD"

\* a value equal to the oversold threshold has been classified HOLD
C26_Witness ==
    /\ fn.op = "generateSignal"
    /\ fn.rsi = <<fn.strategy.oversold>>
    /\ fn.result.type = "HOLD"

\* C27: the strength of every signal is within [0,100]; it is 0 for HOLD,
\* (oversold - value) / oversold * 100 for BUY and (value - overbought) /
\* (100 - overbought) * 100 for SELL (by whole part), 100 when that is more;
\* 85 under thresholds 30/70 has strength 50.
C27_Strength ==
    fn.op = "generateSignal"
    => LET s == fn.result.strength
           wholePart(n, d) ==          \* s is the whole part of n * 100 / d
               s * d <= n * 100 /\ n * 100 < (s + 1) * d
           exact(n, d) == IF n >= d THEN s = 100 ELSE wholePart(n, d)
       IN  /\ s \in 0..100
           /\ fn.result.type = "HOLD" => s = 0
           /\ fn.result.type = "BUY"
              => exact(fn.strategy.oversold - fn.rsi[1], fn.strategy.oversold)
           /\ fn.result.type = "SELL"
              => exact(fn.rsi[1] - fn.strategy.overbought,
                       100 - fn.strategy.overbought)
           /\ (fn.rsi = <<85>> /\ fn.strategy.oversold = 30
               /\ fn.strategy.overbought = 70) => s = 50

\* a value beyond the scale has been given the strength 100
C27_Witness ==
    /\ fn.op = "generateSignal"
    /\ fn.rsi = <<106>>
    /\ fn.result = [ type |-> "SELL", strength |-> 100 ]

\* C28: on a history of constant prices longer than the warm-up period the
\* indicator is 50, and analyze answers HOLD with strength 0 (thresholds
\* 30/70).
C28_ConstantSeriesIsNeutral ==
    (/\ fn.op = "analyze"
     /\ Len(fn.historicalData) >= fn.strategy.period + 1
     /\ \A j \in 1..Len(fn.historicalData) :
           fn.historicalData[j] = fn.historicalData[1])
    => /\ fn.rsi = <<50>>
       /\ fn.result = [ signal |-> "HOLD", strength |-> 0 ]

\* C29: findBestOpportunities returns the signals of its input that are not
\* HOLD and have strength >= minStrength, each as often as the input has it
\* or less, in order of non-increasing strength, `limit` of them at most and
\* the strongest ones when there are more; the input array is as it was, and
\* the function applied to its result returns that result.
C29_FindBest ==
    fn.op = "findBestOpportunities"
    => LET r == fn.result
           good(s) == s.signal # "HOLD" /\ s.strength >= fn.minStrength
           count(l, s) == Cardinality({j \in 1..Len(l) : l[j] = s})
           qualifying == Cardinality({j \in 1..Len(fn.signals) : good(fn.signals[j])})
       IN  /\ \A j \in 1..Len(r) :
                 good(r[j]) /\ count(r, r[j]) <= count(fn.signals, r[j])
           /\ \A j \in 1..(Len(r) - 1) : r[j].strength >= r[j + 1].strength
           /\ Len(r) = Min(qualifying, fn.limit)
           /\ \A j \in 1..Len(fn.signals) :
                 (good(fn.signals[j]) /\ count(r, fn.signals[j]) < count(fn.signals, fn.signals[j]))
                 => /\ Len(r) = fn.limit
                    /\ r[Len(r)].strength >= fn.signals[j].strength
           /\ fn.after = fn.signals
           /\ fn.again = r

\* three signals in ascending order of strength were handed in with limit 2:
\* the two strongest came back, strongest first, and the weakest one was cut
C29_Witness ==
    /\ fn.op = "findBestOpportunities"
    /\ fn.limit = 2
    /\ Len(fn.signals) = 3
    /\ fn.signals[1].strength < fn.signals[2].strength
    /\ fn.signals[2].strength < fn.signals[3].strength
    /\ fn.result = <<fn.signals[3], fn.signals[2]>>

\* C30: validateTrade for a buy answers valid exactly when the open
\* positions are below the total maximum and those of the symbol's venue
\* below that venue's maximum, quantity * price is at most 95% of the
\* balance, and the session is within the daily limits; an invalid answer
\* carries a reason; and the call leaves the session and the configuration
\* as they were.
C30_ValidateTrade ==
    [][fn'.op = "validateTrade"
       => /\ UNCHANGED <<dailyStats, config>>
          /\ fn'.tradeType = "buy"
             => LET venue == IF fn'.symbol \in {"BTC/EUR"} THEN "Kraken"
                             ELSE "Alpaca"
                    onVenue == Cardinality({j \in 1..Len(fn'.positions) :
                                              fn'.positions[j].exchange = venue})
                    venueMax == IF venue = "Alpaca" THEN config.maxPosicoesStocks
                                ELSE config.maxPosicoesCrypto
                    canOpen == /\ Len(fn'.positions) < config.maxPosicoes
                               /\ onVenue < venueMax
                    halt == \/ dailyStats.currentPnL >= config.lucroMaximoDiario
                            \/ dailyStats.currentPnL <= -config.perdaMaximaDiaria
                IN  /\ fn'.result.valid
                         = (/\ canOpen
                            /\ fn'.quantity * fn'.price * 100 <= 95 * fn'.balance
                            /\ ~halt)
                    /\ ~fn'.result.valid => fn'.result.reason # ""]_vars

\* a buy worth exactly 95% of the balance has been found valid with
\* positions open, on a session that had a P&L
C30_Witness ==
    /\ fn.op = "validateTrade" /\ fn.tradeType = "buy"
    /\ fn.quantity * fn.price * 100 = 95 * fn.balance
    /\ fn.positions # <<>>
    /\ dailyStats.currentPnL # 0
    /\ fn.result.valid

\* C31: getRiskStats reports the session's currentPnL, which after
\* updateDailyPnL(balance) is balance - startBalance; the profit headroom
\* dailyProfitLimit - currentPnL; the loss headroom dailyLossLimit +
\* currentPnL; and canTrade, the negation of shouldStopTrading().  So
\* canTrade is false exactly when one of the two headrooms is <= 0.
C31_SessionStats ==
    fn.op = "getRiskStats"
    => LET r == fn.result
           halt == \/ dailyStats.currentPnL >= config.lucroMaximoDiario
                   \/ dailyStats.currentPnL <= -config.perdaMaximaDiaria
       IN  /\ r.dailyPnL = dailyStats.currentPnL
           /\ fn.after.op = "updateDailyPnL"
              => r.dailyPnL = fn.after.balance - dailyStats.startBalance
           /\ r.profitLimitRemaining = config.lucroMaximoDiario - r.dailyPnL
           /\ r.lossLimitRemaining = config.perdaMaximaDiaria + r.dailyPnL
           /\ r.canTrade = ~halt
           /\ ~r.canTrade <=> (r.profitLimitRemaining <= 0 \/ r.lossLimitRemaining <= 0)

\* getRiskStats, called after an update that brought the session's profit
\* to exactly the daily profit limit, reports the profit headroom 0 and
\* canTrade false
C31_Witness ==
    /\ fn.op = "getRiskStats"
    /\ fn.after.op = "updateDailyPnL"
    /\ dailyStats.startBalance > 0
    /\ fn.result.profitLimitRemaining = 0
    /\ fn.result.lossLimitRemaining > 0
    /\ ~fn.result.canTrade

\* C32: a periodic timer is scheduled only while the bot is Running: in
\* every state where it is Stopped or Paused, no timer is live.
C32_TimerOnlyWhileRunning ==
    status \in {"stopped", "paused"} => timers = {}

\* C33: when start() returns true the bot is Running at that moment; when it
\* returns false (already Running, or a connection test failed) it has left
\* the state, the session and the timers as they were and has run no cycle.
C33_StartResult ==
    [][/\ (ev'.call = "start" /\ ev'.ret = "true") => status' = "running"
       /\ (ev'.call = "start" /\ ev'.ret = "false")
          => UNCHANGED <<status, dailyStats, timers, scanInterval, cyc, stats>>]_vars

\* C34: the daily limits are checked before the circuit breaker.  A cycle
\* that finds both the session P&L at or beyond a daily limit and the loss at
\* 5% of the start balance or more stops the bot and liquidates nothing; a
\* cycle goes on to liquidate only when the breaker holds and the P&L it
\* computed is strictly between minus the loss limit and the profit limit.
C34_LimitsBeforeBreaker ==
    [][LET pnl == dailyStats'.currentPnL
           start == dailyStats'.startBalance
           halt == \/ pnl >= config.lucroMaximoDiario
                   \/ pnl <= -config.perdaMaximaDiaria
           breaker == IF start > 0 THEN pnl * 100 <= -5 * start
                      ELSE IF start < 0 THEN pnl * 100 >= -5 * start
                      ELSE pnl < 0
           entered == { k \in BagToSet(cyc') :
                          k.pc = "liquidate" /\ CopiesIn(k, cyc') > CopiesIn(k, cyc) }
       IN  /\ (ev'.pc = "fetch" /\ ev'.cycle # "error" /\ halt /\ breaker)
              => (ev'.cycle = "halt" /\ status' = "stopped" /\ entered = {})
           /\ entered # {}
              => /\ breaker
                 /\ -config.perdaMaximaDiaria < pnl
                 /\ pnl < config.lucroMaximoDiario]_vars

\* a cycle has just stopped the bot on the daily loss limit with the loss
\* beyond 5% of the start balance, and no invocation is about to liquidate
C34_Witness ==
    /\ ev.cycle = "halt"
    /\ status = "stopped"
    /\ dailyStats.startBalance > 0
    /\ dailyStats.currentPnL <= -config.perdaMaximaDiaria
    /\ dailyStats.currentPnL * 100 <= -5 * dailyStats.startBalance
    /\ \A k \in InFlight : k.pc # "liquidate"

\* C35: every buy order a cycle submits is for a BUY signal of its scan with
\* strength >= 50 that fewer than 3 such signals exceed in strength; the
\* candidates are taken in order of non-increasing strength, one at most per
\* turn and three turns at most; and whatever became of the first three, the
\* 4th and 5th opportunities are never taken.
C35_TopThreeOnly ==
    [][(/\ fn.op = "executeTrades" /\ "scanned" \in DOMAIN fn
        /\ fn'.op = "executeTrades" /\ fn' # fn)
       => LET strong == { j \in 1..Len(fn.scanned) :
                            /\ fn.scanned[j].signal = "BUY"
                            /\ fn.scanned[j].strength >= 50 }
              stronger(x) == { j \in strong : fn.scanned[j].strength > x.strength }
          IN  /\ fn'.i = fn.i + 1
              /\ fn.i <= 3
              /\ fn.candidates[fn.i] = fn.opportunities[fn.i]
              /\ fn.i > 1
                 => fn.candidates[fn.i - 1].strength >= fn.candidates[fn.i].strength
              /\ fn'.order # <<>>
                 => /\ fn'.order[1].symbol = fn.candidates[fn.i].symbol
                    /\ \E j \in strong :
                          /\ fn.scanned[j] = fn.candidates[fn.i]
                          /\ Cardinality(stronger(fn.scanned[j])) < 3
              /\ Len(fn'.acc.positions) - Len(fn.acc.positions) \in {0, 1}
              /\ fn'.acc.positions # fn.acc.positions
                 => fn'.acc.positions[Len(fn'.acc.positions)].symbol
                       = fn.candidates[fn.i].symbol]_vars

\* of five opportunities the third has just been rejected by the venue after
\* two buys; the call is over, the 4th and 5th left untried
C35_Witness ==
    /\ fn.op = "executeTrades" /\ "scanned" \in DOMAIN fn
    /\ Len(fn.opportunities) = 5
    /\ fn.i = 4
    /\ fn.last = "buyThrows"
    /\ Len(fn.acc.buys) = 2
    /\ ~ENABLED TradesStep

\* C36: a turn of executeTrades in which the stock market is reported closed,
\* or its clock cannot be fetched, submits no order, leaves the trade counter
\* and the in-cycle position list as they were and moves on to the next
\* candidate; and a crypto candidate that follows such a turn can still be
\* bought.
C36_MarketClosedSkips ==
    [][/\ (/\ fn.op = "executeTrades" /\ fn'.op = "executeTrades"
           /\ fn'.i = fn.i + 1
           /\ fn'.last \in {"marketClosed", "clockThrows"})
          => /\ fn.candidates[fn.i].exchange = "Alpaca"
             /\ fn'.order = <<>>
             /\ fn'.acc = fn.acc
             /\ fn'.candidates = fn.candidates
             /\ UNCHANGED stats
       /\ (/\ fn.op = "executeTrades"
           /\ fn.last \in {"marketClosed", "clockThrows"}
           /\ fn.i <= Len(fn.candidates)
           /\ fn.candidates[fn.i].exchange = "Kraken"
           /\ Len(fn.acc.positions) < config.maxPosicoes
           /\ Cardinality({j \in 1..Len(fn.acc.positions) :
                             fn.acc.positions[j].exchange = "Kraken"})
                 < config.maxPosicoesCrypto
           /\ \A j \in 1..Len(fn.acc.positions) :
                 fn.acc.positions[j].symbol # fn.candidates[fn.i].symbol)
          => ENABLED (/\ TradesStep
                      /\ fn'.last = "bought"
                      /\ fn'.order # <<>>)]_vars

\* a stock candidate has just been skipped because the clock could not be
\* fetched, after an earlier buy of the call, and a crypto candidate that is
\* neither held nor over a limit comes next
C36_Witness ==
    /\ fn.op = "executeTrades"
    /\ fn.last = "clockThrows"
    /\ fn.acc.executed = 1
    /\ fn.i <= Len(fn.candidates)
    /\ fn.candidates[fn.i].exchange = "Kraken"
    /\ CanOpenPosition(fn.acc.positions, "Kraken", config)
    /\ ~HasPosition(fn.acc.positions, fn.candidates[fn.i].symbol)

\* C37: the list of positions a cycle fetched is handed to executeTrades as
\* it was fetched, the positions its exit check closed included: the
\* in-cycle list begins with the fetched list and grows by one entry per
\* counted trade; no symbol the exit check closed is bought in the cycle;
\* and trades are counted only within the limits taken on the fetched list,
\* closed positions included.
C37_ExitsStillCount ==
    fn.op = "cycleRest"
    => LET n == Len(fn.positions)
           venue(l, e) == Cardinality({j \in 1..Len(l) : l[j].exchange = e})
           venueMax(e) == IF e = "Alpaca" THEN config.maxPosicoesStocks
                          ELSE config.maxPosicoesCrypto
       IN  /\ Len(fn.done.positions) = n + fn.done.executed
           /\ SubSeq(fn.done.positions, 1, n) = fn.positions
           /\ \A c \in 1..Len(fn.checked.closed), b \in 1..Len(fn.done.buys) :
                 fn.checked.closed[c] # fn.done.buys[b]
           /\ fn.done.executed > 0 => n + fn.done.executed <= config.maxPosicoes
           /\ \A j \in (n + 1)..Len(fn.done.positions) :
                 LET e == fn.done.positions[j].exchange
                 IN  venue(SubSeq(fn.done.positions, 1, j), e) <= venueMax(e)

\* the exit check closed a position of a cycle whose fetched list was at the
\* total maximum, and a candidate not held was left unbought
C37_Witness ==
    /\ fn.op = "cycleRest"
    /\ fn.checked.closed # <<>>
    /\ Len(fn.positions) = config.maxPosicoes
    /\ \E j \in 1..Len(fn.opportunities) :
          ~HasPosition(fn.positions, fn.opportunities[j].symbol)
    /\ fn.done.executed = 0

C39_TradeCountFollowsTrades ==
    [][stats'.tradesExecuted # stats.tradesExecuted
       => GetRiskStats(dailyStats', config').tradesCount
             - GetRiskStats(dailyStats, config).tradesCount
          = stats'.tradesExecuted - stats.tradesExecuted]_vars

\* C40: if from some point on the venues answer every call of a cycle's
\* first stretch and the cycle finds the session P&L at or beyond a daily
\* limit, then a bot that is Running is eventually Stopped, timer ticks
\* firing and awaits returning; and no invocation of runScanCycle stays in
\* flight for ever: wherever invocations stand again and again, invocations
\* standing there take their next step again and again (an invocation
\* returns after two steps at most).
C40_EventuallyStopped ==
    /\ (<>[][ev'.pc = "fetch"
             => /\ ev'.cycle # "error"
                /\ \/ dailyStats'.currentPnL >= config.lucroMaximoDiario
                   \/ dailyStats'.currentPnL <= -config.perdaMaximaDiaria]_vars)
       => ((status = "running") ~> (status = "stopped"))
    /\ \A k \in CycleStates :
          []<>(k \in InFlight)
          => []<><<k \in InFlight
                   /\ (CycleFetch(k) \/ CycleLiquidate(k) \/ CycleScanAndTrade(k))>>_vars

\* a cycle a timer tick started has just found the P&L at the profit limit
\* and stopped the bot, and no invocation is left in flight
C40_Witness ==
    /\ ev.cycle = "halt" /\ ~ev.byStart
    /\ dailyStats.currentPnL >= config.lucroMaximoDiario
    /\ status = "stopped"
    /\ cyc = EmptyBag

=============================================================================
